---- MODULE Spec2Model ----
(***************************************************************************)
(* A model of the ADGM document-review pipeline:                           *)
(*   src/src/core/processing_engine.py   (process_documents and helpers)   *)
(*   src/src/core/compliance_checker.py  (the five rule checks)            *)
(*   src/src/core/document_parser.py     (ingestion, type classification)  *)
(*   src/src/core/checklist_verifier.py  (process identification)          *)
(*   src/src/core/document_annotator.py  (comment placement, summary)      *)
(*   src/src/rag/rag_system.py           (the advisory analyzer interface) *)
(*                                                                         *)
(* Python strings are TLA+ strings (TLC evaluates Len, \o and SubSeq on    *)
(* them), so lower(), split(), the `in` substring test and the regular     *)
(* expressions of the source are computed, not assumed.  An Optional[str]  *)
(* is <<>> for None and <<s>> for the string s.  A float score is kept in  *)
(* tenths (1000 stands for 100.0).                                         *)
(***************************************************************************)
EXTENDS Integers, Sequences, FiniteSets, TLC

\* ------------------------------------------------------------------------
\* Python string primitives
\* ------------------------------------------------------------------------

UpperLetters == "ABCDEFGHIJKLMNOPQRSTUVWXYZ"
LowerLetters == "abcdefghijklmnopqrstuvwxyz"
DigitChars == "0123456789"

\* s[i] as a one-character string ("" outside the string)
CharAt(s, i) == IF i >= 1 /\ i <= Len(s) THEN SubSeq(s, i, i) ELSE ""

\* the characters of a string, as a set of one-character strings
CharSet(set) == {SubSeq(set, k, k) : k \in 1..Len(set)}

UpperSet == CharSet(UpperLetters)
LowerSet == CharSet(LowerLetters)
DigitSet == CharSet(DigitChars)
\* \w of module re, for the ASCII texts of the model
WordSet == UpperSet \cup LowerSet \cup DigitSet \cup {"_"}

\* the case maps of str.lower() and str.upper()
LowerMap == [c \in UpperSet |->
                SubSeq(LowerLetters, CHOOSE k \in 1..Len(UpperLetters) : SubSeq(UpperLetters, k, k) = c,
                                     CHOOSE k \in 1..Len(UpperLetters) : SubSeq(UpperLetters, k, k) = c)]
UpperMap == [c \in LowerSet |->
                SubSeq(UpperLetters, CHOOSE k \in 1..Len(LowerLetters) : SubSeq(LowerLetters, k, k) = c,
                                     CHOOSE k \in 1..Len(LowerLetters) : SubSeq(LowerLetters, k, k) = c)]

IsSpace(c) == c = " " \/ c = "\n" \/ c = "\t"
IsDigit(c) == c \in DigitSet
IsWordChar(c) == c \in WordSet

LowerChar(c) == IF c \in UpperSet THEN LowerMap[c] ELSE c
UpperChar(c) == IF c \in LowerSet THEN UpperMap[c] ELSE c

RECURSIVE MapChars(_, _, _, _)
\* the characters lo..hi of s, each mapped (halving keeps the recursion shallow)
MapChars(s, lo, hi, up) ==
    IF lo > hi THEN ""
    ELSE IF lo = hi THEN (IF up THEN UpperChar(CharAt(s, lo)) ELSE LowerChar(CharAt(s, lo)))
    ELSE LET mid == (lo + hi) \div 2
         IN MapChars(s, lo, mid, up) \o MapChars(s, mid + 1, hi, up)

\* str.lower() and str.upper()
Lower(s) == MapChars(s, 1, Len(s), FALSE)
Upper(s) == MapChars(s, 1, Len(s), TRUE)

\* whether sub occurs in s at position i
StartsAt(s, sub, i) == i >= 1 /\ i + Len(sub) - 1 <= Len(s) /\ SubSeq(s, i, i + Len(sub) - 1) = sub

\* the least and the greatest element of a set of integers
SetMin(S) == CHOOSE i \in S : \A j \in S : i <= j
SetMax(S) == CHOOSE i \in S : \A j \in S : i >= j
MinOrZero(S) == IF S = {} THEN 0 ELSE SetMin(S)

\* str.find, 1-based; 0 when sub does not occur (Python's -1)
Find(s, sub) == MinOrZero({i \in 1..(Len(s) + 1) : StartsAt(s, sub, i)})

\* Python's `sub in s`
Contains(s, sub) == Find(s, sub) # 0

\* str.strip()
Between(s, solid) == IF solid = {} THEN "" ELSE SubSeq(s, SetMin(solid), SetMax(solid))
Strip(s) == Between(s, {i \in 1..Len(s) : ~IsSpace(CharAt(s, i))})

\* str.split(): the maximal runs of non-whitespace, in order
Solid(s, i) == i >= 1 /\ i <= Len(s) /\ ~IsSpace(CharAt(s, i))
Nth(set, k) == CHOOSE i \in set : Cardinality({j \in set : j < i}) = k - 1
Runs(s, starts, ends) ==
    [k \in 1..Cardinality(starts) |-> SubSeq(s, Nth(starts, k), Nth(ends, k))]
Split(s) ==
    Runs(s, {i \in 1..Len(s) : Solid(s, i) /\ ~Solid(s, i - 1)},
            {i \in 1..Len(s) : Solid(s, i) /\ ~Solid(s, i + 1)})

\* "\n".join(parts)
RECURSIVE JoinLines(_)
JoinLines(parts) ==
    IF parts = <<>> THEN ""
    ELSE IF Len(parts) = 1 THEN parts[1]
    ELSE parts[1] \o "\n" \o JoinLines(Tail(parts))

\* str(x) of an Optional[str]: None prints as "None"
StrOpt(o) == IF o = <<>> THEN "None" ELSE o[1]

\* Python truthiness of an Optional[str]
Truthy(o) == o # <<>> /\ o[1] # ""

Range(f) == {f[i] : i \in DOMAIN f}

RECURSIVE Flatten(_)
Flatten(ss) == IF ss = <<>> THEN <<>> ELSE ss[1] \o Flatten(Tail(ss))

Max2(a, b) == IF a >= b THEN a ELSE b
Min2(a, b) == IF a <= b THEN a ELSE b

\* ------------------------------------------------------------------------
\* The regular expressions of the source (module re).  A pattern is a
\* sequence of elements; MatchEnd follows Python's backtracking order
\* (greedy quantifiers, alternatives left to right).
\* ------------------------------------------------------------------------

L(s) == [k |-> "lit", s |-> s]          \* literal text
Ws1 == [k |-> "ws1"]                     \* \s+
Ws0 == [k |-> "ws0"]                     \* \s*
Opt(c) == [k |-> "opt", s |-> c]         \* c?  (one character)
D1 == [k |-> "digits", lo |-> 1, hi |-> 0]      \* \d+  (hi = 0: unbounded)
Dr(lo, hi) == [k |-> "digits", lo |-> lo, hi |-> hi]  \* \d{lo,hi}
Alt(ss) == [k |-> "alt", alts |-> ss]    \* (?:a|b|c), ss in order
WordB == [k |-> "wordb"]                 \* \b
Dot == [k |-> "dot"]                     \* .
DotStar == [k |-> "dotstar"]             \* .*
NotAhead(p) == [k |-> "notahead", p |-> p]  \* (?!p)

\* whether the character c belongs to the class
InClass(c, cls) ==
    CASE cls = "space" -> IsSpace(c)
      [] cls = "digit" -> IsDigit(c)
      [] OTHER -> c # "\n"

\* the number of consecutive characters from position i that satisfy the class
RunLen(s, i, cls) ==
    IF i > Len(s) THEN 0
    ELSE SetMin({j \in i..(Len(s) + 1) : j > Len(s) \/ ~InClass(CharAt(s, j), cls)}) - i

\* the repetitions of a character class: class, least and greatest count
Repetition(e) ==
    CASE e.k = "ws1" -> [cls |-> "space", lo |-> 1, hi |-> 0]
      [] e.k = "ws0" -> [cls |-> "space", lo |-> 0, hi |-> 0]
      [] e.k = "digits" -> [cls |-> "digit", lo |-> e.lo, hi |-> e.hi]
      [] e.k = "dotstar" -> [cls |-> "any", lo |-> 0, hi |-> 0]
      [] e.k = "dot" -> [cls |-> "any", lo |-> 1, hi |-> 1]

RECURSIVE MatchEnd(_, _, _)

\* the match of rest after the longest of the fitting lengths
LongestFit(rest, s, i, fits) == IF fits = {} THEN 0 ELSE MatchEnd(rest, s, i + SetMax(fits))

\* greedy repetition of a character class that runs for n characters at i
Greedy(rest, s, i, r, n) ==
    LongestFit(rest, s, i,
               {c \in r.lo..(IF r.hi = 0 THEN n ELSE Min2(n, r.hi)) : MatchEnd(rest, s, i + c) # 0})

\* the match of rest after the first alternative that fits
FirstFit(rest, s, i, alts, fits) ==
    IF fits = {} THEN 0 ELSE MatchEnd(rest, s, i + Len(alts[SetMin(fits)]))

OrElse(a, b) == IF a # 0 THEN a ELSE b

\* the position just after the match of pat starting at i; 0 when none
MatchEnd(pat, s, i) ==
    IF pat = <<>> THEN i
    ELSE
      LET e == pat[1]
          rest == Tail(pat)
      IN CASE e.k = "lit" ->
                IF StartsAt(s, e.s, i) THEN MatchEnd(rest, s, i + Len(e.s)) ELSE 0
           [] e.k \in {"ws1", "ws0", "digits", "dotstar", "dot"} ->
                Greedy(rest, s, i, Repetition(e), RunLen(s, i, Repetition(e).cls))
           [] e.k = "opt" ->
                OrElse(IF StartsAt(s, e.s, i) THEN MatchEnd(rest, s, i + Len(e.s)) ELSE 0,
                       MatchEnd(rest, s, i))
           [] e.k = "alt" ->
                FirstFit(rest, s, i, e.alts,
                         {a \in 1..Len(e.alts) :
                             StartsAt(s, e.alts[a], i)
                             /\ MatchEnd(rest, s, i + Len(e.alts[a])) # 0})
           [] e.k = "wordb" ->
                IF IsWordChar(CharAt(s, i - 1)) # IsWordChar(CharAt(s, i))
                THEN MatchEnd(rest, s, i) ELSE 0
           [] e.k = "notahead" ->
                IF MatchEnd(e.p, s, i) = 0 THEN MatchEnd(rest, s, i) ELSE 0
           [] OTHER -> 0

\* re.match(pat, s): a match anchored at the start
ReMatch(pat, s) == MatchEnd(pat, s, 1) # 0

\* a match of a pattern that opens with literal text starts with that text
Opening(pat) == IF pat # <<>> /\ pat[1].k = "lit" THEN pat[1].s ELSE ""

\* the start of the leftmost match at or after from, 0 when there is none
SearchFrom(pat, s, from) ==
    MinOrZero({i \in from..(Len(s) + 1) : StartsAt(s, Opening(pat), i) /\ MatchEnd(pat, s, i) # 0})

\* re.search(pat, s) as a truth value
ReSearch(pat, s) == SearchFrom(pat, s, 1) # 0

RECURSIVE FindIterFrom(_, _, _)

\* the match from i to e, then the matches after it
MatchAndRest(pat, s, i, e) ==
    <<SubSeq(s, i, e - 1)>> \o FindIterFrom(pat, s, IF e > i THEN e ELSE i + 1)

MatchesAt(pat, s, i) == IF i = 0 THEN <<>> ELSE MatchAndRest(pat, s, i, MatchEnd(pat, s, i))

\* re.finditer(pat, s): the matched texts of the non-overlapping matches
FindIterFrom(pat, s, from) == MatchesAt(pat, s, SearchFrom(pat, s, from))

FindIter(pat, s) == FindIterFrom(pat, s, 1)

\* words separated by \s+ : Ph2("a", "b") is a\s+b
Ph2(a, b) == <<L(a), Ws1, L(b)>>
Ph3(a, b, c) == <<L(a), Ws1, L(b), Ws1, L(c)>>
Ph4(a, b, c, d) == <<L(a), Ws1, L(b), Ws1, L(c), Ws1, L(d)>>

\* ------------------------------------------------------------------------
\* src/src/models.py
\* ------------------------------------------------------------------------

ARTICLES_OF_ASSOCIATION == "Articles of Association"
MEMORANDUM_OF_ASSOCIATION == "Memorandum of Association"
INCORPORATION_APPLICATION == "Incorporation Application Form"
UBO_DECLARATION == "UBO Declaration Form"
BOARD_RESOLUTION == "Board Resolution Templates"
REGISTER_MEMBERS_DIRECTORS == "Register of Members and Directors"
SHAREHOLDER_RESOLUTION == "Shareholder Resolution Templates"
CHANGE_ADDRESS_NOTICE == "Change of Registered Address Notice"
EMPLOYMENT_CONTRACT == "Employment Contract"
COMMERCIAL_AGREEMENT == "Commercial Agreement"
COMPLIANCE_POLICY == "Compliance Policy"
\* DocumentType.OTHER (OTHER is a reserved word)
OTHER_TYPE == "Other"

\* class DocumentType, in declaration order
DocumentType ==
    <<ARTICLES_OF_ASSOCIATION, MEMORANDUM_OF_ASSOCIATION, INCORPORATION_APPLICATION,
      UBO_DECLARATION, BOARD_RESOLUTION, REGISTER_MEMBERS_DIRECTORS, SHAREHOLDER_RESOLUTION,
      CHANGE_ADDRESS_NOTICE, EMPLOYMENT_CONTRACT, COMMERCIAL_AGREEMENT, COMPLIANCE_POLICY,
      OTHER_TYPE>>

\* class ProcessType
ProcessType ==
    <<"Company Incorporation", "License Application", "Employment Setup",
      "Commercial Agreement", "Compliance Filing", "Other">>

LOW == "Low"
MEDIUM == "Medium"
HIGH == "High"
CRITICAL == "Critical"

\* class SeverityLevel
SeverityLevel == {LOW, MEDIUM, HIGH, CRITICAL}

\* class DocumentIssue (line_number is never set and is left out)
DocumentIssue(document, section, issue, severity, suggestion, adgm_reference) ==
    [document |-> document, section |-> section, issue |-> issue, severity |-> severity,
     suggestion |-> suggestion, adgm_reference |-> adgm_reference]

\* ------------------------------------------------------------------------
\* src/src/core/compliance_checker.py
\* ------------------------------------------------------------------------

RECURSIVE JurisdictionFirstMatches(_, _, _)
\* the loop with re.search in the place of re.finditer: one issue per pattern
JurisdictionFirstMatches(patterns, text_lower, doc_type) ==
    IF patterns = <<>> THEN <<>>
    ELSE LET matches == FindIter(patterns[1], text_lower)
         IN [m \in 1..Min2(1, Len(matches)) |->
                DocumentIssue(doc_type, <<"Jurisdiction Clause">>,
                              "Incorrect jurisdiction reference: '" \o matches[m] \o "'",
                              HIGH, <<"Update jurisdiction to reference ADGM Courts">>,
                              <<"ADGM Companies Regulations 2020, Article 6">>)]
            \o JurisdictionFirstMatches(Tail(patterns), text_lower, doc_type)

RECURSIVE JurisdictionMatches(_, _, _)
\* the loop over incorrect_jurisdictions and re.finditer: one issue per match
JurisdictionMatches(patterns, text_lower, doc_type) ==
    IF patterns = <<>> THEN <<>>
    ELSE LET matches == FindIter(patterns[1], text_lower)
         IN [m \in 1..Len(matches) |->
                DocumentIssue(doc_type, <<"Jurisdiction Clause">>,
                              "Incorrect jurisdiction reference: '" \o matches[m] \o "'",
                              HIGH, <<"Update jurisdiction to reference ADGM Courts">>,
                              <<"ADGM Companies Regulations 2020, Article 6">>)]
            \o JurisdictionMatches(Tail(patterns), text_lower, doc_type)

incorrect_jurisdictions ==
    << <<L("uae"), Ws1, L("federal"), Ws1, L("court"), Opt("s")>>,
       <<L("dubai"), Ws1, L("court"), Opt("s")>>,
       <<L("abu"), Ws1, L("dhabi"), Ws1, L("court"), Opt("s"),
         NotAhead(<<Ws1, L("global"), Ws1, L("market")>>)>>,
       <<L("emirates"), Ws1, L("court"), Opt("s")>>,
       <<L("federal"), Ws1, L("court"), Opt("s"), Ws1, L("of"), Ws1, L("uae")>> >>

adgm_patterns ==
    << <<L("adgm"), Ws1, L("court"), Opt("s")>>,
       <<L("abu"), Ws1, L("dhabi"), Ws1, L("global"), Ws1, L("market"), Ws1, L("court"), Opt("s")>>,
       <<L("court"), Opt("s"), Ws1, L("of"), Ws1, L("adgm")>> >>

_check_jurisdiction(text, doc_type) ==
    LET text_lower == Lower(text)
        has_adgm_jurisdiction ==
            \E p \in 1..Len(adgm_patterns) : ReSearch(adgm_patterns[p], text_lower)
    IN JurisdictionMatches(incorrect_jurisdictions, text_lower, doc_type)
       \o (IF ~has_adgm_jurisdiction
              /\ doc_type \in {ARTICLES_OF_ASSOCIATION, MEMORANDUM_OF_ASSOCIATION,
                               COMMERCIAL_AGREEMENT}
           THEN <<DocumentIssue(doc_type, <<"Jurisdiction Clause">>,
                                "Missing ADGM jurisdiction clause", HIGH,
                                <<"Add clause specifying ADGM Courts jurisdiction">>,
                                <<"ADGM Companies Regulations 2020">>)>>
           ELSE <<>>)

\* _create_required_clauses: per type, the clauses in order
required_clauses(doc_type) ==
    CASE doc_type = ARTICLES_OF_ASSOCIATION ->
           << [name |-> "Company Name",
               patterns |-> << Ph2("company", "name"), Ph4("name", "of", "the", "company") >>,
               severity |-> HIGH,
               reference |-> "ADGM Companies Regulations 2020, Art. 15"],
              [name |-> "Share Capital",
               patterns |-> << Ph2("share", "capital"), Ph2("authorized", "capital") >>,
               severity |-> HIGH,
               reference |-> "ADGM Companies Regulations 2020, Art. 25"],
              [name |-> "Directors Powers",
               patterns |-> << <<L("director"), Opt("s"), Ws1, L("power"), Opt("s")>>,
                               <<L("board"), Ws1, L("power"), Opt("s")>> >>,
               severity |-> MEDIUM,
               reference |-> "ADGM Companies Regulations 2020, Art. 45"] >>
      [] doc_type = MEMORANDUM_OF_ASSOCIATION ->
           << [name |-> "Company Objects",
               patterns |-> << <<L("object"), Opt("s"), Ws1, L("of"), Ws1, L("the"), Ws1, L("company")>>,
                               <<L("business"), Ws1, L("object"), Opt("s")>> >>,
               severity |-> HIGH,
               reference |-> "ADGM Companies Regulations 2020, Art. 12"],
              [name |-> "Liability Clause",
               patterns |-> << Ph3("liability", "of", "members"), Ph2("limited", "liability") >>,
               severity |-> HIGH,
               reference |-> "ADGM Companies Regulations 2020, Art. 18"] >>
      [] OTHER -> <<>>

\* a clause found only when every one of its patterns matches
CheckRequiredClausesAllPatterns(text, doc_type) ==
    LET text_lower == Lower(text)
        clauses == required_clauses(doc_type)
        found(c) == \A p \in 1..Len(clauses[c].patterns) :
                        ReSearch(clauses[c].patterns[p], text_lower)
        issue(c) == DocumentIssue(doc_type, <<clauses[c].name>>,
                                  "Missing required clause: " \o clauses[c].name,
                                  clauses[c].severity,
                                  <<"Add " \o clauses[c].name \o " clause">>,
                                  <<clauses[c].reference>>)
    IN Flatten([c \in 1..Len(clauses) |-> IF found(c) THEN <<>> ELSE <<issue(c)>>])

_check_required_clauses(text, doc_type) ==
    LET text_lower == Lower(text)
        clauses == required_clauses(doc_type)
        found(c) == \E p \in 1..Len(clauses[c].patterns) :
                        ReSearch(clauses[c].patterns[p], text_lower)
        issue(c) == DocumentIssue(doc_type, <<clauses[c].name>>,
                                  "Missing required clause: " \o clauses[c].name,
                                  clauses[c].severity,
                                  <<"Add " \o clauses[c].name \o " clause">>,
                                  <<clauses[c].reference>>)
    IN Flatten([c \in 1..Len(clauses) |-> IF found(c) THEN <<>> ELSE <<issue(c)>>])

_check_formatting(text, structured_content, doc_type) ==
    LET sections == structured_content.sections
        numbered_sections ==
            SelectSeq(sections, LAMBDA sec : ReMatch(<<D1, L(".")>>, sec.text))
    IN (IF doc_type \in {ARTICLES_OF_ASSOCIATION, BOARD_RESOLUTION}
           /\ structured_content.signatures = <<>>
        THEN <<DocumentIssue(doc_type, <<"Signature Section">>, "Missing signature section",
                             MEDIUM,
                             <<"Add proper signature section with date and witness fields">>,
                             <<"ADGM Document Standards">>)>>
        ELSE <<>>)
       \o (IF Len(sections) > 0 /\ 2 * Len(numbered_sections) < Len(sections)
           THEN <<DocumentIssue(doc_type, <<"Document Structure">>,
                                "Inconsistent section numbering", LOW,
                                <<"Use consistent numbering for all sections">>,
                                <<"ADGM Document Formatting Guidelines">>)>>
           ELSE <<>>)
       \o (IF doc_type = REGISTER_MEMBERS_DIRECTORS /\ structured_content.tables = <<>>
           THEN <<DocumentIssue(doc_type, <<"Data Structure">>,
                                "Missing tabular format for member/director information",
                                MEDIUM,
                                <<"Use table format for member and director details">>,
                                <<"ADGM Register Requirements">>)>>
           ELSE <<>>)

ambiguous_patterns ==
    << <<WordB, L("may"), Ws1, Alt(<<"be", "have", "do">>)>>,
       <<WordB, L("should"), Ws1, Alt(<<"be", "have", "do">>)>>,
       <<WordB, L("might"), Ws1, Alt(<<"be", "have", "do">>)>>,
       <<WordB, L("possibly")>>,
       <<WordB, L("perhaps")>>,
       <<WordB, L("if"), Ws1, L("possible")>> >>

\* more matches than this of one pattern is "too many ambiguous terms"
AmbiguousThreshold == 3

essential_info ==
    << [pattern |-> Ph2("share", "capital"), info_name |-> "Share capital information"],
       [pattern |-> Ph2("registered", "office"), info_name |-> "Registered office address"],
       [pattern |-> <<L("object"), Opt("s"), Ws1, L("of"), Ws1, L("the"), Ws1, L("company")>>,
        info_name |-> "Company objects"] >>

date_patterns ==
    << <<Dr(1, 2), L("/"), Dr(1, 2), L("/"), Dr(2, 4)>>,
       <<Dr(1, 2), L("-"), Dr(1, 2), L("-"), Dr(2, 4)>> >>

\* the loop without its break: one issue for every pattern with more than
\* 3 matches
RedFlagsEveryPattern(text, doc_type) ==
    LET text_lower == Lower(text)
        missing(e) == DocumentIssue(doc_type, <<essential_info[e].info_name>>,
                                    "Missing " \o Lower(essential_info[e].info_name), HIGH,
                                    <<"Include " \o Lower(essential_info[e].info_name)
                                        \o " in the document">>,
                                    <<"ADGM Companies Regulations">>)
        dated == \E p \in 1..Len(date_patterns) : ReSearch(date_patterns[p], text)
    IN Flatten([p \in 1..Len(ambiguous_patterns) |->
                  IF Len(FindIter(ambiguous_patterns[p], text_lower)) > AmbiguousThreshold
                  THEN <<DocumentIssue(doc_type, <<"Language Clarity">>,
                                       "Excessive use of ambiguous language", MEDIUM,
                                       <<"Use definitive language (shall, will, must) instead of ambiguous terms">>,
                                       <<"ADGM Drafting Standards">>)>>
                  ELSE <<>>])
       \o (IF doc_type = ARTICLES_OF_ASSOCIATION
           THEN Flatten([e \in 1..Len(essential_info) |->
                            IF ReSearch(essential_info[e].pattern, text_lower)
                            THEN <<>> ELSE <<missing(e)>>])
           ELSE <<>>)
       \o (IF dated
           THEN <<DocumentIssue(doc_type, <<"Date Format">>,
                                "Inconsistent date format detected", LOW,
                                <<"Use consistent date format (DD Month YYYY)">>,
                                <<"ADGM Document Standards">>)>>
           ELSE <<>>)

_detect_red_flags(text, doc_type) ==
    LET text_lower == Lower(text)
        \* the loop breaks at the first pattern with more than 3 matches
        ambiguous == \E p \in 1..Len(ambiguous_patterns) :
                        Len(FindIter(ambiguous_patterns[p], text_lower)) > AmbiguousThreshold
        missing(e) == DocumentIssue(doc_type, <<essential_info[e].info_name>>,
                                    "Missing " \o Lower(essential_info[e].info_name), HIGH,
                                    <<"Include " \o Lower(essential_info[e].info_name)
                                        \o " in the document">>,
                                    <<"ADGM Companies Regulations">>)
        \* the date loop breaks at the first family that matches
        dated == \E p \in 1..Len(date_patterns) : ReSearch(date_patterns[p], text)
    IN (IF ambiguous
        THEN <<DocumentIssue(doc_type, <<"Language Clarity">>,
                             "Excessive use of ambiguous language", MEDIUM,
                             <<"Use definitive language (shall, will, must) instead of ambiguous terms">>,
                             <<"ADGM Drafting Standards">>)>>
        ELSE <<>>)
       \o (IF doc_type = ARTICLES_OF_ASSOCIATION
           THEN Flatten([e \in 1..Len(essential_info) |->
                            IF ReSearch(essential_info[e].pattern, text_lower)
                            THEN <<>> ELSE <<missing(e)>>])
           ELSE <<>>)
       \o (IF dated
           THEN <<DocumentIssue(doc_type, <<"Date Format">>,
                                "Inconsistent date format detected", LOW,
                                <<"Use consistent date format (DD Month YYYY)">>,
                                <<"ADGM Document Standards">>)>>
           ELSE <<>>)

_check_adgm_specific_requirements(text, doc_type) ==
    LET text_lower == Lower(text)
        adgm_reg_pattern == <<L("adgm"), Ws0, Opt("-"), Ws0, D1>>
    IN (IF doc_type \in {ARTICLES_OF_ASSOCIATION, MEMORANDUM_OF_ASSOCIATION}
           /\ ~ReSearch(adgm_reg_pattern, text_lower)
        THEN <<DocumentIssue(doc_type, <<"Registration Details">>,
                             "Missing or incorrect ADGM registration number format", MEDIUM,
                             <<"Include proper ADGM registration number (ADGM-XXXXXX)">>,
                             <<"ADGM Registration Requirements">>)>>
        ELSE <<>>)
       \o (IF ~Contains(text_lower, "abu dhabi global market") /\ Contains(text_lower, "adgm")
           THEN <<DocumentIssue(doc_type, <<"ADGM Reference">>,
                                "ADGM abbreviation used without full name", LOW,
                                <<"Use full name 'Abu Dhabi Global Market (ADGM)' on first reference">>,
                                <<"ADGM Style Guide">>)>>
           ELSE <<>>)

\* The five checks of check_compliance, in call order.
CheckNames == <<"jurisdiction", "required_clauses", "formatting", "red_flags", "adgm_specific">>

\* A call either returns a value or raises; an exception is the value Raised.
Raised == [exc |-> TRUE]
Returned(v) == [exc |-> FALSE, val |-> v]

\* check_compliance, with `faulty` the set of checks whose implementation
\* raises on this call.  No check is wrapped in try/except: the issues
\* collected so far are lost with the first exception.
check_compliance(document_text, document_type, structured_content, faulty) ==
    IF faulty # {} THEN Raised
    ELSE Returned(_check_jurisdiction(document_text, document_type)
                  \o _check_required_clauses(document_text, document_type)
                  \o _check_formatting(document_text, structured_content, document_type)
                  \o _detect_red_flags(document_text, document_type)
                  \o _check_adgm_specific_requirements(document_text, document_type))

\* ------------------------------------------------------------------------
\* The document container (python-docx).  A document is
\*   [paragraphs: sequence of paragraphs, tables: sequence of tables];
\* a paragraph is [runs, kind, orig, target]: runs is a sequence of
\* [text, bold, highlight]; kind, orig and target are bookkeeping of the
\* model: kind is "orig" for a paragraph of the input and "comment",
\* "title", "line" or "separator" for an inserted one, orig is the index
\* an original paragraph had in the input, target the original index a
\* comment was placed for.  A table is a sequence of rows of cell texts.
\* Indices are 1-based where Python's are 0-based.
\* ------------------------------------------------------------------------

Run(text, bold) == [text |-> text, bold |-> bold, highlight |-> FALSE]

RECURSIVE ConcatText(_)
ConcatText(runs) == IF runs = <<>> THEN "" ELSE runs[1].text \o ConcatText(Tail(runs))

\* Paragraph.text
ParText(par) == ConcatText(par.runs)

\* ------------------------------------------------------------------------
\* src/src/core/document_parser.py
\* ------------------------------------------------------------------------

_extract_text(doc) ==
    LET pars == [i \in 1..Len(doc.paragraphs) |-> Strip(ParText(doc.paragraphs[i]))]
        cells == Flatten([t \in 1..Len(doc.tables) |->
                    Flatten([r \in 1..Len(doc.tables[t]) |->
                        [c \in 1..Len(doc.tables[t][r]) |-> Strip(doc.tables[t][r][c])]])])
    IN JoinLines(SelectSeq(pars, LAMBDA t : t # "") \o SelectSeq(cells, LAMBDA t : t # ""))

\* _create_type_patterns: the pattern table, in dictionary order
document_type_patterns ==
    << [type |-> ARTICLES_OF_ASSOCIATION, patterns |->
          << <<L("article"), Opt("s"), Ws1, L("of"), Ws1, L("association")>>,
             Ph2("company", "constitution"),
             Ph2("share", "capital"),
             <<L("director"), Opt("s"), Ws1, L("powers")>>,
             <<L("general"), Ws1, L("meeting"), Opt("s")>>,
             <<L("dividend")>>,
             Ph2("winding", "up") >>],
       [type |-> MEMORANDUM_OF_ASSOCIATION, patterns |->
          << Ph3("memorandum", "of", "association"),
             <<L("object"), Opt("s"), Ws1, L("of"), Ws1, L("the"), Ws1, L("company")>>,
             Ph3("liability", "of", "members"),
             Ph3("authorized", "share", "capital"),
             Ph2("company", "name"),
             Ph2("registered", "office") >>],
       [type |-> INCORPORATION_APPLICATION, patterns |->
          << Ph2("incorporation", "application"),
             Ph3("application", "for", "registration"),
             Ph2("company", "registration"),
             Ph3("proposed", "company", "name"),
             Ph3("nature", "of", "business"),
             Ph2("registered", "address") >>],
       [type |-> UBO_DECLARATION, patterns |->
          << Ph3("ultimate", "beneficial", "owner"),
             Ph2("ubo", "declaration"),
             Ph2("beneficial", "ownership"),
             Ph2("controlling", "interest"),
             Ph2("ownership", "structure"),
             Ph3("25%", "or", "more") >>],
       [type |-> BOARD_RESOLUTION, patterns |->
          << Ph2("board", "resolution"),
             <<L("director"), Opt("s"), Ws1, L("resolution")>>,
             Ph2("resolved", "that"),
             Ph3("board", "of", "directors"),
             Ph3("meeting", "of", "directors"),
             Ph2("quorum", "present") >>],
       [type |-> REGISTER_MEMBERS_DIRECTORS, patterns |->
          << Ph3("register", "of", "members"),
             Ph3("register", "of", "directors"),
             <<L("shareholder"), Opt("s"), Ws1, L("register")>>,
             <<L("director"), Opt("s"), Ws1, L("register")>>,
             Ph2("member", "details"),
             Ph2("director", "details") >>],
       [type |-> SHAREHOLDER_RESOLUTION, patterns |->
          << <<L("shareholder"), Opt("s"), Ws1, L("resolution")>>,
             Ph2("general", "meeting"),
             Ph3("extraordinary", "general", "meeting"),
             Ph3("annual", "general", "meeting"),
             Ph2("special", "resolution"),
             Ph2("ordinary", "resolution") >>],
       [type |-> CHANGE_ADDRESS_NOTICE, patterns |->
          << Ph3("change", "of", "address"),
             Ph3("registered", "office", "address"),
             Ph2("new", "address"),
             Ph2("address", "change"),
             Ph2("relocation", "notice"),
             Ph2("office", "relocation") >>],
       [type |-> EMPLOYMENT_CONTRACT, patterns |->
          << Ph2("employment", "contract"),
             Ph2("employment", "agreement"),
             Ph3("terms", "of", "employment"),
             Ph2("job", "description"),
             <<L("salary")>>,
             Ph2("working", "hours"),
             Ph2("notice", "period") >>],
       [type |-> COMMERCIAL_AGREEMENT, patterns |->
          << Ph2("commercial", "agreement"),
             Ph2("service", "agreement"),
             Ph2("supply", "agreement"),
             Ph2("partnership", "agreement"),
             Ph3("terms", "and", "conditions"),
             Ph2("payment", "terms") >>],
       [type |-> COMPLIANCE_POLICY, patterns |->
          << Ph2("compliance", "policy"),
             Ph2("risk", "management"),
             Ph2("data", "protection"),
             <<L("anti"), Dot, L("money"), Ws1, L("laundering")>>,
             Ph3("know", "your", "customer"),
             Ph2("regulatory", "compliance") >>] >>

\* a confidence is the fraction num/den (a Python float in the source)
Frac(num, den) == [num |-> num, den |-> den]
FracGeq(a, b) == a.num * b.den >= b.num * a.den
FracGt(a, b) == a.num * b.den > b.num * a.den

\* "At least 30% of patterns matched"
TypeThreshold == Frac(3, 10)

\* the score of the t-th type: matched patterns / total patterns
MatchedShare(patterns, text_lower) ==
    Frac(Cardinality({p \in 1..Len(patterns) : ReSearch(patterns[p], text_lower)}),
         Len(patterns))

TypeScore(t, text_lower) == MatchedShare(document_type_patterns[t].patterns, text_lower)

\* the last key whose value no other key's value exceeds
ArgMaxLast(scores) ==
    CHOOSE t \in 1..Len(scores) :
        /\ \A u \in 1..Len(scores) : FracGeq(scores[t], scores[u])
        /\ \A u \in (t + 1)..Len(scores) : FracGt(scores[t], scores[u])

\* max(d, key=d.get) over a dictionary in insertion order: the first key
\* whose value no other key's value exceeds
ArgMaxFirst(scores) ==
    CHOOSE t \in 1..Len(scores) :
        /\ \A u \in 1..Len(scores) : FracGeq(scores[t], scores[u])
        /\ \A u \in 1..(t - 1) : FracGt(scores[t], scores[u])

\* type_scores, in the order of the pattern table
TypeScores(text_lower) ==
    <<>> \o [t \in 1..Len(document_type_patterns) |-> TypeScore(t, text_lower)]

\* the best type returned whatever its score
BestTypeWithoutThreshold(type_scores, best) ==
    <<document_type_patterns[best].type, type_scores[best]>>

\* best_type and its confidence, or OTHER below the threshold
BestType(type_scores, best) ==
    IF FracGeq(type_scores[best], TypeThreshold)
    THEN <<document_type_patterns[best].type, type_scores[best]>>
    ELSE <<OTHER_TYPE, Frac(0, 1)>>

BestOf(type_scores) == BestType(type_scores, ArgMaxFirst(type_scores))

_identify_document_type(text_content) == BestOf(TypeScores(Lower(text_content)))

\* r'signature|signed|date.*signed'
signature_pattern == << <<L("signature")>>, <<L("signed")>>, <<L("date"), DotStar, L("signed")>> >>

_extract_structured_content(doc) ==
    LET n == Len(doc.paragraphs)
        texts == <<>> \o [i \in 1..n |-> Strip(ParText(doc.paragraphs[i]))]
        text(i) == texts[i]
        bold(i) == \E r \in 1..Len(doc.paragraphs[i].runs) : doc.paragraphs[i].runs[r].bold
        isSection(i) == text(i) # "" /\ (ReMatch(<<D1, L(".")>>, text(i)) \/ bold(i))
        isClause(i) == text(i) # "" /\ ReMatch(<<D1, L("."), D1>>, text(i))
        isSignature(i) == text(i) # ""
                          /\ \E a \in 1..Len(signature_pattern) :
                                ReSearch(signature_pattern[a], Lower(text(i)))
        clauseNumber(i) == SubSeq(text(i), 1, MatchEnd(<<D1, L("."), D1>>, text(i), 1) - 1)
        pick(Test(_), Make(_)) ==
            Flatten([i \in 1..n |-> IF Test(i) THEN <<Make(i)>> ELSE <<>>])
    IN [sections |-> pick(isSection, LAMBDA i : [index |-> i, text |-> text(i), type |-> "section_header"]),
        clauses |-> pick(isClause, LAMBDA i : [index |-> i, text |-> text(i), clause_number |-> clauseNumber(i)]),
        signatures |-> pick(isSignature, LAMBDA i : [index |-> i, text |-> text(i)]),
        tables |-> [t \in 1..Len(doc.tables) |->
                      [index |-> t,
                       data |-> [r \in 1..Len(doc.tables[t]) |->
                                   [c \in 1..Len(doc.tables[t][r]) |-> Strip(doc.tables[t][r][c])]],
                       rows |-> Len(doc.tables[t]),
                       cols |-> IF doc.tables[t] = <<>> THEN 0 ELSE Len(doc.tables[t][1])]]]

\* parse_document of a file [filename, readable, doc]: Document(file_path)
\* raises on a corrupt or unsupported container, and the exception is
\* re-raised.  The record keeps the document object itself (docx_object).
ParsedDocument(file, text_content, typed) ==
    [filename |-> file.filename,
     text_content |-> text_content,
     word_count |-> Len(Split(text_content)),
     document_type |-> typed[1],
     type_confidence |-> typed[2],
     structured_content |-> _extract_structured_content(file.doc),
     docx_object |-> file.doc]

ParsedText(file, text_content) ==
    ParsedDocument(file, text_content, _identify_document_type(text_content))

parse_document(file) ==
    IF ~file.readable THEN Raised ELSE Returned(ParsedText(file, _extract_text(file.doc)))

\* ------------------------------------------------------------------------
\* src/src/core/checklist_verifier.py and ADGM_PROCESS_REQUIREMENTS
\* ------------------------------------------------------------------------

\* ADGM_PROCESS_REQUIREMENTS (src/src/config.py), in dictionary order
process_requirements ==
    << [process |-> "Company Incorporation", required |->
          <<"Articles of Association", "Memorandum of Association", "UBO Declaration Form",
            "Register of Members and Directors", "Board Resolution Templates">>],
       [process |-> "License Application", required |->
          <<"License Application Form", "Business Plan", "Financial Projections",
            "Compliance Manual">>] >>

\* the alias table of _documents_match, in dictionary order
match_patterns ==
    << [key |-> "articles of association", patterns |-> <<"articles", "aoa", "articles of association">>],
       [key |-> "memorandum of association", patterns |-> <<"memorandum", "moa", "memorandum of association">>],
       [key |-> "ubo declaration", patterns |-> <<"ubo", "beneficial owner", "ultimate beneficial owner">>],
       [key |-> "board resolution", patterns |-> <<"board resolution", "directors resolution", "resolution">>],
       [key |-> "register of members and directors", patterns |-> <<"register", "members register", "directors register">>],
       [key |-> "shareholder resolution", patterns |-> <<"shareholder resolution", "shareholders resolution">>],
       [key |-> "employment contract", patterns |-> <<"employment", "contract", "employment agreement">>],
       [key |-> "incorporation application", patterns |-> <<"incorporation", "application", "registration application">>] >>

\* the keys of the alias table the required name holds
MatchingKeys(required_lower) ==
    {k \in 1..Len(match_patterns) : Contains(required_lower, match_patterns[k].key)}

\* the aliases of the first such key, looked for in the uploaded name
\* (without a key, match_patterns.get(required_lower) finds nothing either)
AliasMatch(uploaded_lower, keys) ==
    /\ keys # {}
    /\ \E q \in 1..Len(match_patterns[SetMin(keys)].patterns) :
          Contains(uploaded_lower, match_patterns[SetMin(keys)].patterns[q])

LoweredMatch(required_lower, uploaded_lower) ==
    required_lower = uploaded_lower \/ AliasMatch(uploaded_lower, MatchingKeys(required_lower))

_documents_match(required_doc, uploaded_doc) ==
    LoweredMatch(Strip(Lower(required_doc)), Strip(Lower(uploaded_doc)))

\* "At least 40% of required documents present"
ProcessThreshold == Frac(2, 5)

\* whether an uploaded document stands for the required one
IsPresent(required_doc, uploaded_doc_names) ==
    \E d \in 1..Len(uploaded_doc_names) : _documents_match(required_doc, uploaded_doc_names[d])

PresentShare(required, doc_type_names) ==
    Frac(Cardinality({r \in 1..Len(required) : IsPresent(required[r], doc_type_names)}),
         Len(required))

ProcessScore(p, doc_type_names) == PresentShare(process_requirements[p].required, doc_type_names)

\* doc['document_type'].value of each uploaded document
TypeNames(uploaded_documents) ==
    <<>> \o [d \in 1..Len(uploaded_documents) |-> uploaded_documents[d].document_type]

ProcessScores(doc_type_names) ==
    <<>> \o [p \in 1..Len(process_requirements) |-> ProcessScore(p, doc_type_names)]

\* the best process returned whatever its score
BestProcessWithoutThreshold(process_scores, best) ==
    <<process_requirements[best].process, process_scores[best]>>

\* the best process accepted only above the threshold
BestProcessAboveThreshold(process_scores, best) ==
    IF FracGt(process_scores[best], ProcessThreshold)
    THEN <<process_requirements[best].process, process_scores[best]>>
    ELSE <<"Other", Frac(0, 1)>>

BestProcess(process_scores, best) ==
    IF FracGeq(process_scores[best], ProcessThreshold)
    THEN <<process_requirements[best].process, process_scores[best]>>
    ELSE <<"Other", Frac(0, 1)>>

BestProcessOf(process_scores) == BestProcess(process_scores, ArgMaxFirst(process_scores))

identify_process_type(uploaded_documents) ==
    BestProcessOf(ProcessScores(TypeNames(uploaded_documents)))

RequiredOf(found) ==
    IF found = {} THEN <<>> ELSE process_requirements[CHOOSE p \in found : TRUE].required

\* ADGM_PROCESS_REQUIREMENTS.get(process_type.value, [])
RequiredDocs(process_type) ==
    RequiredOf({p \in 1..Len(process_requirements) :
                   process_requirements[p].process = process_type})

\* the percentage taken from the number of uploaded documents
CompletenessOfUploads(process_type, uploaded_documents, required_docs, present_documents, missing_documents) ==
    [process_type |-> process_type,
     total_required |-> Len(required_docs),
     total_uploaded |-> Len(uploaded_documents),
     total_present |-> Len(present_documents),
     completeness_percentage |-> IF Len(required_docs) > 0
                                 THEN Frac(Len(uploaded_documents) * 100, Len(required_docs))
                                 ELSE Frac(100, 1),
     missing_documents |-> missing_documents,
     present_documents |-> present_documents,
     is_complete |-> Len(missing_documents) = 0]

Completeness(process_type, uploaded_documents, required_docs, present_documents, missing_documents) ==
    [process_type |-> process_type,
     total_required |-> Len(required_docs),
     total_uploaded |-> Len(uploaded_documents),
     total_present |-> Len(present_documents),
     \* a percentage, as a fraction
     completeness_percentage |-> IF Len(required_docs) > 0
                                 THEN Frac(Len(present_documents) * 100, Len(required_docs))
                                 ELSE Frac(100, 1),
     missing_documents |-> missing_documents,
     present_documents |-> present_documents,
     is_complete |-> Len(missing_documents) = 0]

CheckedAgainst(process_type, uploaded_documents, required_docs, uploaded_doc_names) ==
    Completeness(process_type, uploaded_documents, required_docs,
                 SelectSeq(required_docs, LAMBDA r : IsPresent(r, uploaded_doc_names)),
                 SelectSeq(required_docs, LAMBDA r : ~IsPresent(r, uploaded_doc_names)))

verify_document_completeness(uploaded_documents, process_type) ==
    CheckedAgainst(process_type, uploaded_documents, RequiredDocs(process_type),
                   TypeNames(uploaded_documents))

\* ------------------------------------------------------------------------
\* src/src/core/processing_engine.py: the pure helpers
\* ------------------------------------------------------------------------

\* f"{issue.section}_{issue.issue}_{issue.severity.value}"
IssueSignature(issue) == StrOpt(issue.section) \o "_" \o issue.issue \o "_" \o issue.severity

RECURSIVE DedupForgetting(_, _, _)
\* the loop with a seen signature forgotten when it is met again
DedupForgetting(issues, i, seen_issues) ==
    IF i > Len(issues) THEN <<>>
    ELSE LET signature == IssueSignature(issues[i])
         IN IF signature \notin seen_issues
            THEN <<issues[i]>> \o DedupForgetting(issues, i + 1, seen_issues \cup {signature})
            ELSE DedupForgetting(issues, i + 1, seen_issues \ {signature})

RECURSIVE DedupFrom(_, _, _)
DedupFrom(issues, i, seen_issues) ==
    IF i > Len(issues) THEN <<>>
    ELSE LET signature == IssueSignature(issues[i])
         IN IF signature \notin seen_issues
            THEN <<issues[i]>> \o DedupFrom(issues, i + 1, seen_issues \cup {signature})
            ELSE DedupFrom(issues, i + 1, seen_issues)

_deduplicate_issues(issues) == DedupFrom(issues, 1, {})

severity_weights(severity) ==
    CASE severity = LOW -> 1
      [] severity = MEDIUM -> 3
      [] severity = HIGH -> 7
      [] severity = CRITICAL -> 15
      [] OTHER -> 1

RECURSIVE SumSeq(_)
SumSeq(ns) == IF ns = <<>> THEN 0 ELSE ns[1] + SumSeq(Tail(ns))

\* round(num/den) to the nearest integer, ties to even (num >= 0, den > 0)
RoundHalfEven(num, den) ==
    LET q == num \div den
        r == num % den
    IN IF 2 * r < den THEN q
       ELSE IF 2 * r > den THEN q + 1
       ELSE IF q % 2 = 0 THEN q ELSE q + 1

\* the score in tenths: 1000 is 100.0
FullScore == 1000
\* the words a document is normalised by: penalties count per 100 words
WordsPerUnit == 100

\* the score without the floor of max(0, ...)
ScoreWithoutFloor(issues, word_count) ==
    IF issues = <<>> THEN FullScore
    ELSE LET total_penalty == SumSeq([i \in 1..Len(issues) |-> severity_weights(issues[i].severity)])
             units == Max2(word_count, WordsPerUnit)
             num == FullScore * units - 10 * WordsPerUnit * total_penalty
         IN IF num <= 0 THEN 0 - RoundHalfEven(0 - num, units) ELSE RoundHalfEven(num, units)

_calculate_compliance_score(issues, word_count) ==
    IF issues = <<>> THEN FullScore
    ELSE LET total_penalty == SumSeq([i \in 1..Len(issues) |-> severity_weights(issues[i].severity)])
             \* max(word_count / 100, 1) is units/100
             units == Max2(word_count, WordsPerUnit)
             \* 100 - total_penalty / (units/100), in tenths, over units
             num == FullScore * units - 10 * WordsPerUnit * total_penalty
         IN IF num <= 0 THEN 0 ELSE RoundHalfEven(num, units)

_calculate_overall_score(document_analyses) ==
    IF document_analyses = <<>> THEN 0
    ELSE LET weight(a) == Max2(a.word_count, WordsPerUnit)
             total_weighted_score ==
                 SumSeq([i \in 1..Len(document_analyses) |->
                            document_analyses[i].compliance_score * weight(document_analyses[i])])
             total_weight ==
                 SumSeq([i \in 1..Len(document_analyses) |-> weight(document_analyses[i])])
         IN RoundHalfEven(total_weighted_score, total_weight)

IssuesOf(document_analyses, severity) ==
    SelectSeq(Flatten([i \in 1..Len(document_analyses) |-> document_analyses[i].issues]),
              LAMBDA i : i.severity = severity)

MissingLines(missing, process_type) ==
    <<"Missing " \o ToString(Len(missing)) \o " required document(s) for " \o process_type>>
    \o [m \in 1..Min2(Len(missing), 3) |-> "Upload required document: " \o missing[m]]

CountedLine(issues, opening, closing) ==
    IF issues # <<>> THEN <<opening \o ToString(Len(issues)) \o closing>> ELSE <<>>

ScoreLine(overall_score) ==
    IF overall_score < 600
    THEN <<"Overall compliance score is below 60% - significant improvements needed">>
    ELSE IF overall_score < 800
    THEN <<"Overall compliance score could be improved - review flagged issues">>
    ELSE <<"Good overall compliance score - minor improvements recommended">>

\* recommendations[:10]
FirstTen(recommendations) == SubSeq(recommendations, 1, Min2(Len(recommendations), 10))

\* _generate_process_recommendations (the pictographs that open each line
\* are left out)
_generate_process_recommendations(completeness_info, document_analyses, process_type) ==
    FirstTen((IF ~completeness_info.is_complete
              THEN MissingLines(completeness_info.missing_documents, process_type)
              ELSE <<>>)
             \o CountedLine(IssuesOf(document_analyses, CRITICAL),
                            "Address ", " critical compliance issue(s)")
             \o CountedLine(IssuesOf(document_analyses, HIGH),
                            "Review ", " high-priority issue(s)")
             \o ScoreLine(_calculate_overall_score(document_analyses))
             \o (IF process_type = "Company Incorporation"
                 THEN <<"Ensure all incorporation documents are properly executed",
                        "Verify company name availability with ADGM Registration Authority",
                        "Confirm registered office address is within ADGM jurisdiction">>
                 ELSE <<>>))

\* ------------------------------------------------------------------------
\* src/src/core/document_annotator.py
\* ------------------------------------------------------------------------

\* keyword_map of _extract_keywords_from_issue, in dictionary order
keyword_map ==
    << [category |-> "jurisdiction", terms |-> <<"jurisdiction", "court", "adgm", "dubai", "abu dhabi">>],
       [category |-> "signature", terms |-> <<"signature", "signed", "signatory", "execution">>],
       [category |-> "date", terms |-> <<"date", "dated", "day of">>],
       [category |-> "share capital", terms |-> <<"share", "capital", "shares", "authorized">>],
       [category |-> "director", terms |-> <<"director", "board", "directors">>],
       [category |-> "member", terms |-> <<"member", "shareholder", "membership">>],
       [category |-> "company name", terms |-> <<"company", "name", "corporation">>],
       [category |-> "registered office", terms |-> <<"registered", "office", "address">>],
       [category |-> "objects", terms |-> <<"objects", "purpose", "business", "activities">>] >>

\* the words of the issue's section, lowered
SectionKeywords(issue) ==
    IF Truthy(issue.section) THEN Range(Split(Lower(issue.section[1]))) ELSE {}

\* the categories of keyword_map with a term in the issue text
KeywordHits(issue_text) ==
    {c \in 1..Len(keyword_map) :
        \E t \in 1..Len(keyword_map[c].terms) : Contains(issue_text, keyword_map[c].terms[t])}

\* list(set(keywords)): the keywords as a set (the list's order is that of
\* a hash set and is not fixed by the program)
_extract_keywords_from_issue(issue) ==
    UNION {Range(keyword_map[c].terms) : c \in KeywordHits(Lower(issue.issue))}
    \cup SectionKeywords(issue)

\* the paragraphs holding a keyword of the section
BySection(lowered, section_keywords) ==
    {i \in 1..Len(lowered) : \E k \in section_keywords : Contains(lowered[i], k)}

\* per paragraph, the number of issue keywords it holds
KeywordScore(lowered, issue_keywords) ==
    <<>> \o [i \in 1..Len(lowered) |-> Cardinality({k \in issue_keywords : Contains(lowered[i], k)})]

\* score >= best_match_score would keep the last paragraph of the best score
BestScoredLatest(score) ==
    {i \in 1..Len(score) :
        /\ score[i] > 0
        /\ \A j \in 1..Len(score) : score[j] <= score[i]
        /\ \A j \in (i + 1)..Len(score) : score[j] < score[i]}

\* score > best_match_score keeps the first paragraph of the best score
BestScored(score) ==
    {i \in 1..Len(score) :
        /\ score[i] > 0
        /\ \A j \in 1..Len(score) : score[j] <= score[i]
        /\ \A j \in 1..(i - 1) : score[j] < score[i]}

\* the section match goes first, then the keyword match; 0 stands for None
FirstChoice(bySection, best) ==
    IF bySection # {} THEN SetMin(bySection)
    ELSE IF best # {} THEN CHOOSE i \in best : TRUE
    ELSE 0

LoweredTexts(paragraphs) == <<>> \o [i \in 1..Len(paragraphs) |-> Lower(paragraphs[i])]

BestParagraphIn(issue, lowered) ==
    FirstChoice(BySection(lowered, SectionKeywords(issue)),
                BestScored(KeywordScore(lowered, _extract_keywords_from_issue(issue))))

\* _find_best_paragraph over the paragraph texts
_find_best_paragraph(issue, paragraphs) == BestParagraphIn(issue, LoweredTexts(paragraphs))

\* the text of the paragraph where the keyword stands
MatchedText(paragraph_text, k, at) == SubSeq(paragraph_text, at, at + Len(k) - 1)

MatchesOf(paragraph_text, lowered, present) ==
    IF present = {} THEN {<<>>}
    ELSE {<<MatchedText(paragraph_text, k, Find(lowered, k))>> : k \in present}

PresentKeywords(issue, lowered) ==
    {k \in _extract_keywords_from_issue(issue) : Contains(lowered, k)}

CandidatesIn(issue, paragraph_text, lowered) ==
    MatchesOf(paragraph_text, lowered, PresentKeywords(issue, lowered))

\* _extract_highlight_text returns the match of the first keyword, in the
\* iteration order of list(set(...)), that the paragraph contains: any of
\* the keywords present may be that first one.  The set of possible results.
HighlightCandidates(issue, paragraph_text) ==
    CandidatesIn(issue, paragraph_text, Lower(paragraph_text))

\* severity_emoji: a tag stands for each pictograph
severity_emoji(severity) ==
    CASE severity = LOW -> "(yellow)"
      [] severity = MEDIUM -> "(orange)"
      [] severity = HIGH -> "(red)"
      [] severity = CRITICAL -> "(siren)"
      [] OTHER -> "(warning)"

_format_comment(issue) ==
    JoinLines(<<severity_emoji(issue.severity) \o " " \o Upper(issue.severity) \o " ISSUE",
                "Issue: " \o issue.issue>>
              \o (IF Truthy(issue.suggestion) THEN <<"Suggestion: " \o issue.suggestion[1]>> ELSE <<>>)
              \o (IF Truthy(issue.adgm_reference) THEN <<"Reference: " \o issue.adgm_reference[1]>> ELSE <<>>))

_get_comment_type(issue) ==
    IF issue.severity \in {HIGH, CRITICAL} THEN "critical"
    ELSE IF issue.severity = MEDIUM THEN "warning"
    ELSE "info"

\* the texts of the document's paragraphs
ParTexts(doc) == <<>> \o [p \in 1..Len(doc.paragraphs) |-> ParText(doc.paragraphs[p])]

\* the paragraph found for each issue
BestParagraphs(issues, paragraphs) ==
    <<>> \o [i \in 1..Len(issues) |-> _find_best_paragraph(issues[i], paragraphs)]

InsertionsAt(issues, highlights, at) ==
    Flatten([i \in 1..Len(issues) |->
               IF at[i] # 0
               THEN <<[paragraph_index |-> at[i],
                       comment_text |-> _format_comment(issues[i]),
                       highlight_text |-> highlights[i],
                       comment_type |-> _get_comment_type(issues[i])]>>
               ELSE <<>>])

\* _create_comment_insertions: one insertion per issue that finds a
\* paragraph; highlights[i] is the result of _extract_highlight_text for
\* the i-th issue
_create_comment_insertions(issues, doc, highlights) ==
    InsertionsAt(issues, highlights, BestParagraphs(issues, ParTexts(doc)))

CandidatesAt(issue, paragraphs, at) ==
    IF at = 0 THEN {<<>>} ELSE HighlightCandidates(issue, paragraphs[at])

RECURSIVE HighlightChoicesFrom(_, _, _)
HighlightChoicesFrom(issues, paragraphs, i) ==
    IF i > Len(issues) THEN {<<>>}
    ELSE {<<c>> \o r :
            c \in CandidatesAt(issues[i], paragraphs, _find_best_paragraph(issues[i], paragraphs)),
            r \in HighlightChoicesFrom(issues, paragraphs, i + 1)}

\* the highlight choices _create_comment_insertions can make: one result
\* of _extract_highlight_text per issue
HighlightChoices(issues, doc) == HighlightChoicesFrom(issues, ParTexts(doc), 1)

\* the insertions left in the order the issues gave them
KeepIssueOrder(insertions) == insertions

\* the place of the i-th insertion in the sorted list
Rank(insertions, i) ==
    Cardinality({j \in 1..Len(insertions) :
                    insertions[j].paragraph_index > insertions[i].paragraph_index})
    + Cardinality({j \in 1..(i - 1) :
                      insertions[j].paragraph_index = insertions[i].paragraph_index})
    + 1

\* list.sort(key=paragraph_index, reverse=True): descending and stable
SortByIndexDescending(insertions) ==
    <<>> \o [k \in 1..Len(insertions) |->
               insertions[CHOOSE i \in 1..Len(insertions) : Rank(insertions, i) = k]]

\* the match marked and the text around it left out
HighlightedRunsMatchOnly(paragraph, paragraph_text, start_index, stop) ==
    IF start_index = 0 THEN paragraph
    ELSE [paragraph EXCEPT !.runs =
            <<[text |-> SubSeq(paragraph_text, start_index, stop - 1), bold |-> FALSE, highlight |-> TRUE]>>]

\* the runs before / match / after, the match marked
HighlightedRuns(paragraph, paragraph_text, start_index, stop) ==
    IF start_index = 0 THEN paragraph
    ELSE [paragraph EXCEPT !.runs =
            (IF start_index > 1 THEN <<Run(SubSeq(paragraph_text, 1, start_index - 1), FALSE)>> ELSE <<>>)
            \o <<[text |-> SubSeq(paragraph_text, start_index, stop - 1), bold |-> FALSE, highlight |-> TRUE]>>
            \o (IF stop - 1 < Len(paragraph_text)
                THEN <<Run(SubSeq(paragraph_text, stop, Len(paragraph_text)), FALSE)>> ELSE <<>>)]

HighlightFrom(paragraph, paragraph_text, highlight_text, start_index) ==
    HighlightedRuns(paragraph, paragraph_text, start_index, start_index + Len(highlight_text))

\* _highlight_text_in_paragraph: the runs are cleared and rebuilt
_highlight_text_in_paragraph(paragraph, highlight_text) ==
    HighlightFrom(paragraph, ParText(paragraph), highlight_text,
                  Find(Lower(ParText(paragraph)), Lower(highlight_text)))

\* a sequence with x put after position i (i = 0: in front)
InsertAfter(seq, i, x) == SubSeq(seq, 1, i) \o <<x>> \o SubSeq(seq, i + 1, Len(seq))

\* the comment paragraph _insert_paragraph_after creates and
\* _format_comment_paragraph fills
CommentParagraph(insertion) ==
    [runs |-> <<[text |-> "[ADGM REVIEW] " \o insertion.comment_text,
                 bold |-> insertion.comment_type \in {"critical", "warning"},
                 highlight |-> FALSE]>>,
     kind |-> "comment", orig |-> 0, target |-> insertion.paragraph_index]

\* the target paragraph, with the highlight when there is one
Marked(paragraph, insertion) ==
    IF Truthy(insertion.highlight_text)
    THEN _highlight_text_in_paragraph(paragraph, insertion.highlight_text[1])
    ELSE paragraph

\* _insert_comment: paragraph_index counts the paragraphs of the document
\* as it is now
_insert_comment(doc, insertion) ==
    IF insertion.paragraph_index <= Len(doc.paragraphs)
    THEN [doc EXCEPT !.paragraphs =
            InsertAfter([doc.paragraphs EXCEPT ![insertion.paragraph_index] =
                            Marked(doc.paragraphs[insertion.paragraph_index], insertion)],
                        insertion.paragraph_index, CommentParagraph(insertion))]
    ELSE doc

RECURSIVE CountSeverity(_, _)
CountSeverity(issues, severity) ==
    IF issues = <<>> THEN 0
    ELSE (IF issues[1].severity = severity THEN 1 ELSE 0) + CountSeverity(Tail(issues), severity)

\* "Show top 5 issues"
SummaryLimit == 5

\* the count line without the `if count > 0` test
CountLineAlways(severity, count) ==
    <<severity_emoji(severity) \o " " \o severity \o ": " \o ToString(count) \o " issue(s)">>

CountLine(severity, count) ==
    IF count > 0
    THEN <<severity_emoji(severity) \o " " \o severity \o ": " \o ToString(count) \o " issue(s)">>
    ELSE <<>>

\* the line of a severity, when it has issues
SeverityLine(issues, severity) == CountLine(severity, CountSeverity(issues, severity))

_create_summary_content(issues) ==
    IF issues = <<>>
    THEN <<"(check) No compliance issues found. Document appears to be compliant with ADGM requirements.">>
    ELSE <<"(chart) Total Issues Found: " \o ToString(Len(issues)), "">>
         \o SeverityLine(issues, CRITICAL) \o SeverityLine(issues, HIGH)
         \o SeverityLine(issues, MEDIUM) \o SeverityLine(issues, LOW)
         \o <<"", "(memo) Key Issues:">>
         \o [i \in 1..Min2(Len(issues), SummaryLimit) |-> ToString(i) \o ". " \o issues[i].issue]
         \o (IF Len(issues) > SummaryLimit
             THEN <<"... and " \o ToString(Len(issues) - SummaryLimit) \o " more issue(s)">>
             ELSE <<>>)
         \o <<"", "(bulb) Please review the detailed comments throughout the document for specific guidance.", "">>

SummaryParagraph(kind, text, bold) ==
    [runs |-> <<Run(text, bold)>>, kind |-> kind, orig |-> 0, target |-> 0]

SeparatorText == "================================================================================"

SummaryTitle == SummaryParagraph("title", "ADGM COMPLIANCE REVIEW SUMMARY", TRUE)

RECURSIVE InsertLinesAfterTitle(_, _)
\* each call of summary_paragraph.insert_paragraph_after() puts the new
\* paragraph directly after the title paragraph
InsertLinesAfterTitle(paragraphs, lines) ==
    IF lines = <<>> THEN paragraphs
    ELSE InsertLinesAfterTitle(InsertAfter(paragraphs, 1, SummaryParagraph("line", lines[1], FALSE)),
                               Tail(lines))

\* _add_summary_section.  has_insert_after says whether the Paragraph class
\* of the installed python-docx has the method insert_paragraph_after the
\* code calls (the stock class has insert_paragraph_before only: the call
\* raises AttributeError, which the handler logs, and the block stays at
\* its title).  A document without paragraphs raises IndexError at once.
_add_summary_section(doc, issues, can_insert_after) ==
    IF doc.paragraphs = <<>> THEN doc
    ELSE IF ~can_insert_after
    THEN [doc EXCEPT !.paragraphs = InsertAfter(doc.paragraphs, 0, SummaryTitle)]
    ELSE [doc EXCEPT !.paragraphs =
            InsertAfter(InsertLinesAfterTitle(InsertAfter(doc.paragraphs, 0, SummaryTitle),
                                              _create_summary_content(issues)),
                        1, SummaryParagraph("separator", SeparatorText, FALSE))]

RECURSIVE ApplyInsertions(_, _)
ApplyInsertions(doc, insertions) ==
    IF insertions = <<>> THEN doc
    ELSE ApplyInsertions(_insert_comment(doc, insertions[1]), Tail(insertions))

\* _insert_comment when the insertion raises once the target is marked (the
\* new paragraph cannot be created): the handler logs it, nothing is inserted
InsertCommentRaising(doc, insertion) ==
    IF insertion.paragraph_index <= Len(doc.paragraphs)
    THEN [doc EXCEPT !.paragraphs[insertion.paragraph_index] =
            Marked(doc.paragraphs[insertion.paragraph_index], insertion)]
    ELSE doc

RECURSIVE ApplyInsertionsFrom(_, _, _, _)
\* the loop of annotate_document left at the insertion that raises
ApplyInsertionsStopping(doc, insertions, k, failing) ==
    IF k > Len(insertions) THEN doc
    ELSE IF k = failing THEN InsertCommentRaising(doc, insertions[k])
    ELSE ApplyInsertionsFrom(_insert_comment(doc, insertions[k]), insertions, k + 1, failing)

\* `for insertion in comment_insertions`, from the k-th on, the failing-th
\* insertion raising inside _insert_comment (failing = 0: none raises)
ApplyInsertionsFrom(doc, insertions, k, failing) ==
    IF k > Len(insertions) THEN doc
    ELSE ApplyInsertionsFrom(IF k = failing THEN InsertCommentRaising(doc, insertions[k])
                             ELSE _insert_comment(doc, insertions[k]),
                             insertions, k + 1, failing)

\* annotate_document: works on the document object it is given and returns
\* that same object
annotate_document(doc, issues, highlights, can_insert_after) ==
    _add_summary_section(
        ApplyInsertions(doc, SortByIndexDescending(_create_comment_insertions(issues, doc, highlights))),
        issues, can_insert_after)

\* annotate_document on a run where the failing-th insertion raises
AnnotateWithFailure(doc, issues, highlights, can_insert_after, failing) ==
    _add_summary_section(
        ApplyInsertionsFrom(doc,
                            SortByIndexDescending(_create_comment_insertions(issues, doc, highlights)),
                            1, failing),
        issues, can_insert_after)

\* ------------------------------------------------------------------------
\* The advisory analyzer (src/src/rag/rag_system.py).  One call meets an
\* environment: the reference-store search works or raises, the language
\* model answers or raises, and an answer carries a list of issue entries.
\* ------------------------------------------------------------------------

\* _parse_compliance_response over the decoded entries of the reply: a
\* severity that is no SeverityLevel raises inside the try and the whole
\* reply is dropped
_parse_compliance_response(reply) ==
    IF \E i \in 1..Len(reply) : reply[i].severity \notin SeverityLevel THEN <<>>
    ELSE <<>> \o [i \in 1..Len(reply) |->
             DocumentIssue("Current Document", <<reply[i].section>>, reply[i].issue,
                           reply[i].severity, <<reply[i].suggestion>>,
                           <<reply[i].adgm_reference>>)]

\* analyze_document_compliance: vector_store.search is called before the
\* try block, llm.invoke and the parsing inside it
analyze_document_compliance(env) ==
    IF env.search = "error" THEN Raised
    ELSE IF env.llm = "error" THEN Returned(<<>>)
    ELSE Returned(_parse_compliance_response(env.reply))

\* identify_red_flags has the same shape (the reply's 'red_flags' key is
\* renamed and parsed by _parse_compliance_response)
identify_red_flags(env) ==
    IF env.search = "error" THEN Raised
    ELSE IF env.llm = "error" THEN Returned(<<>>)
    ELSE Returned(_parse_compliance_response(env.reply))

\* the body of _analyze_single_document after check_compliance has
\* returned or raised (compliance_issues); env.rag and env.flags are the
\* environments of the two advisory calls
AnalyzeAfterChecks(parsed_doc, compliance_issues, env) ==
    LET rag_issues == analyze_document_compliance(env.rag)
        red_flags == identify_red_flags(env.flags)
    IN IF compliance_issues.exc \/ rag_issues.exc \/ red_flags.exc
       THEN \* the except branch: "basic analysis with error"
            [filename |-> parsed_doc.filename,
             document_type |-> parsed_doc.document_type,
             confidence |-> Frac(0, 1),
             issues |-> <<>>,
             compliance_score |-> 0,
             word_count |-> parsed_doc.word_count]
       ELSE LET unique_issues ==
                    _deduplicate_issues(compliance_issues.val \o rag_issues.val \o red_flags.val)
            IN [filename |-> parsed_doc.filename,
                document_type |-> parsed_doc.document_type,
                confidence |-> parsed_doc.type_confidence,
                issues |-> unique_issues,
                compliance_score |->
                    _calculate_compliance_score(unique_issues, Len(Split(parsed_doc.text_content))),
                word_count |-> parsed_doc.word_count]

\* _analyze_single_document; env.faulty is the set of checks that raise
_analyze_single_document(parsed_doc, env) ==
    AnalyzeAfterChecks(parsed_doc,
                       check_compliance(parsed_doc.text_content, parsed_doc.document_type,
                                        parsed_doc.structured_content, env.faulty),
                       env)

\* ------------------------------------------------------------------------
\* The inputs of the model
\* ------------------------------------------------------------------------

OrigParagraph(text, bold, i) ==
    [runs |-> <<Run(text, bold)>>, kind |-> "orig", orig |-> i, target |-> 0]

\* a document of one run per paragraph, no tables
PlainDocument(texts) ==
    [paragraphs |-> <<>> \o [i \in 1..Len(texts) |-> OrigParagraph(texts[i], FALSE, i)],
     tables |-> <<>>]

\* the files a batch can name: a container that does not open, articles
\* with several findings, a note without any, a board resolution with one
Files ==
    << [filename |-> "corrupt.docx", readable |-> FALSE,
        doc |-> PlainDocument(<<>>)],
       [filename |-> "articles.docx", readable |-> TRUE,
        doc |-> PlainDocument(<<"Articles of Association",
                                "1. Share capital and dividend",
                                "1.1 Disputes go to Dubai Courts",
                                "Signed on the date">>)],
       [filename |-> "notes.docx", readable |-> TRUE,
        doc |-> PlainDocument(<<"Meeting notes", "Nothing to add">>)],
       [filename |-> "resolution.docx", readable |-> TRUE,
        doc |-> PlainDocument(<<"Board resolution",
                                "Resolved that the board of directors approve">>)] >>

\* the file a path names
FileAt(path) == Files[CHOOSE k \in 1..Len(Files) : Files[k].filename = path]

\* the longest batch a run is given
MaxFiles == 2

RECURSIVE SeqsUpTo(_, _)
\* the sequences over S of length at most n
SeqsUpTo(S, n) ==
    IF n = 0 THEN {<<>>}
    ELSE LET shorter == SeqsUpTo(S, n - 1)
         IN shorter \cup {Append(q, e) : q \in {q \in shorter : Len(q) = n - 1}, e \in S}

Batches == SeqsUpTo({Files[k].filename : k \in 1..Len(Files)}, MaxFiles)

\* what one advisory call can meet
SearchError == [search |-> "error", llm |-> "ok", reply |-> <<>>]
LlmError == [search |-> "ok", llm |-> "error", reply |-> <<>>]
Answer(reply) == [search |-> "ok", llm |-> "ok", reply |-> reply]
\* the environment of a call that is never made
NotCalled == [search |-> "none", llm |-> "none", reply |-> <<>>]

\* the replies of the language model: no finding, or one that repeats a
\* finding of the rule engine
Replies ==
    { <<>>,
      << [section |-> "Jurisdiction Clause", issue |-> "Missing ADGM jurisdiction clause",
         severity |-> HIGH, suggestion |-> "Add an ADGM Courts clause",
         adgm_reference |-> "ADGM Courts Regulations"] >> }

AdvisoryEnvs == {SearchError, LlmError} \cup {Answer(r) : r \in Replies}

\* what one call of _analyze_single_document can meet: one check raises
\* (nothing after it is called), or the first advisory call loses the
\* reference store (the second is not made), or both advisory calls are made
AnalyzeEnvs ==
    {[faulty |-> {CheckNames[c]}, rag |-> NotCalled, flags |-> NotCalled] : c \in 1..Len(CheckNames)}
    \cup {[faulty |-> {}, rag |-> SearchError, flags |-> NotCalled]}
    \cup {[faulty |-> {}, rag |-> r, flags |-> f] : r \in AdvisoryEnvs \ {SearchError}, f \in AdvisoryEnvs}

\* The calls the actions make on the files of the model, tabulated as sets
\* of <<arguments, result>>: the files are fixed, and so are the results of
\* parsing, analysing and annotating them.
Lookup(table, arguments) == (CHOOSE entry \in table : entry[1] = arguments)[2]

ParsedFiles == {<<Files[k].filename, parse_document(Files[k])>> : k \in 1..Len(Files)}

ParsedDocuments == {entry[2].val : entry \in {entry \in ParsedFiles : ~entry[2].exc}}

ComplianceTable ==
    {<<<<d, faulty>>,
       check_compliance(d.text_content, d.document_type, d.structured_content, faulty)>> :
        d \in ParsedDocuments, faulty \in {env.faulty : env \in AnalyzeEnvs}}

\* _analyze_single_document(d, env), with the result of its first call
\* taken from ComplianceTable
AnalysisTable ==
    {<<<<d, env>>, AnalyzeAfterChecks(d, Lookup(ComplianceTable, <<d, env.faulty>>), env)>> :
        d \in ParsedDocuments, env \in AnalyzeEnvs}

\* the documents and issue lists annotate_document is called with
AnnotationCalls ==
    {<<entry[1][1].docx_object, entry[2].issues>> :
        entry \in {entry \in AnalysisTable : entry[2].issues # <<>>}}

HighlightTable == {<<call, HighlightChoices(call[2], call[1])>> : call \in AnnotationCalls}

\* the calls, each with a choice of highlights
AnnotationChoices ==
    UNION {{<<call[1], call[2], highlights>> : highlights \in Lookup(HighlightTable, call)} :
           call \in AnnotationCalls}

AnnotationTable ==
    {<<<<choice[1], choice[2], choice[3], flag>>,
       annotate_document(choice[1], choice[2], choice[3], flag)>> :
        choice \in AnnotationChoices, flag \in BOOLEAN}

\* the issues of each call that are matched to a paragraph
PlacedTable ==
    {<<call, {k \in 1..Len(call[2]) : _find_best_paragraph(call[2][k], ParTexts(call[1])) # 0}>> :
        call \in AnnotationCalls}

\* the number of insertions each choice creates
InsertionCounts ==
    {<<choice, Len(_create_comment_insertions(choice[2], choice[1], choice[3]))>> :
        choice \in AnnotationChoices}

\* annotate_document on the runs where one insertion raises
FailingAnnotationTable ==
    {<<<<failure[1][1], failure[1][2], failure[1][3], flag, failure[2]>>,
       AnnotateWithFailure(failure[1][1], failure[1][2], failure[1][3], flag, failure[2])>> :
        failure \in UNION {{<<counted[1], k>> : k \in 1..counted[2]} : counted \in InsertionCounts},
        flag \in BOOLEAN}

\* the issues of each check on each parsed document
CheckTable ==
    {<<d, [jurisdiction |-> _check_jurisdiction(d.text_content, d.document_type),
           required_clauses |-> _check_required_clauses(d.text_content, d.document_type),
           formatting |-> _check_formatting(d.text_content, d.structured_content, d.document_type),
           red_flags |-> _detect_red_flags(d.text_content, d.document_type),
           adgm_specific |-> _check_adgm_specific_requirements(d.text_content, d.document_type)]>> :
        d \in ParsedDocuments}

None == <<>>

\* ------------------------------------------------------------------------
\* State
\* ------------------------------------------------------------------------

VARIABLES
    \* process_documents (processing_engine.py)
    pc,                 \* the step process_documents is at
    file_paths,         \* its argument
    cursor,             \* the position of the loop the step belongs to
    parsed_documents,   \* the local list of parse results
    process_type,       \* <<type, confidence>> once identified
    completeness_info,
    document_analyses,
    process_analysis,
    output_files,       \* the local list of written paths
    disk,               \* the output directory: path -> saved document
    result,             \* the ProcessingResult returned
    has_insert_after,   \* whether Paragraph has insert_paragraph_after
    last_call,          \* what the latest _analyze_single_document met
    save_failed,        \* the documents whose save raised
    insert_failed,      \* the documents with an insertion that raised
    \* annotate_document called on its own (document_annotator.py)
    an_pc, an_source, an_doc, an_issues, an_pending,
    an_applied,         \* the insertions the loop has been through
    \* _deduplicate_issues called on its own
    dd_pc, dd_in, dd_out, dd_again,
    \* another function called on its own: the step, the arguments, the
    \* result, and the result of a second call on the same arguments
    fn_pc, fn_in, fn_out, fn_again

engineVars == <<pc, file_paths, cursor, parsed_documents, process_type, completeness_info,
                document_analyses, process_analysis, output_files, disk, result, last_call,
                save_failed, insert_failed>>
annotatorVars == <<an_pc, an_source, an_doc, an_issues, an_pending, an_applied>>
dedupVars == <<dd_pc, dd_in, dd_out, dd_again>>
callVars == <<fn_pc, fn_in, fn_out, fn_again>>
vars == <<engineVars, has_insert_after, annotatorVars, dedupVars, callVars>>

EngineIdle ==
    /\ pc = "idle" /\ file_paths = <<>> /\ cursor = 1 /\ parsed_documents = <<>>
    /\ process_type = None /\ completeness_info = None /\ document_analyses = <<>>
    /\ process_analysis = None /\ output_files = <<>> /\ disk = <<>> /\ result = None
    /\ last_call = None /\ save_failed = {} /\ insert_failed = {}

AnnotatorIdle ==
    /\ an_pc = "idle" /\ an_source = None /\ an_doc = None /\ an_issues = <<>>
    /\ an_pending = <<>> /\ an_applied = <<>>

DedupIdle == dd_pc = "idle" /\ dd_in = <<>> /\ dd_out = <<>> /\ dd_again = <<>>

CallIdle == fn_pc = "idle" /\ fn_in = None /\ fn_out = None /\ fn_again = None

\* ------------------------------------------------------------------------
\* process_documents, step by step
\* ------------------------------------------------------------------------

ProcessingResult(success, analysis, output_file_path, error_message) ==
    [success |-> success, analysis |-> analysis, output_file_path |-> output_file_path,
     error_message |-> error_message]

\* the entry of process_documents on a batch of paths
Init ==
    /\ pc = "parse"
    /\ file_paths \in Batches
    /\ cursor = 1
    /\ parsed_documents = <<>>
    /\ process_type = None /\ completeness_info = None
    /\ document_analyses = <<>> /\ process_analysis = None
    /\ output_files = <<>> /\ disk = <<>> /\ result = None
    /\ last_call = None /\ save_failed = {} /\ insert_failed = {}
    /\ has_insert_after \in BOOLEAN
    /\ AnnotatorIdle /\ DedupIdle /\ CallIdle

\* the loop of Step 1 if a file that does not parse ended it
ParseFileStopping ==
    /\ pc = "parse" /\ cursor <= Len(file_paths)
    /\ \E parsed_doc \in {Lookup(ParsedFiles, file_paths[cursor])} :
          /\ parsed_documents' = IF parsed_doc.exc THEN parsed_documents
                                 ELSE Append(parsed_documents, parsed_doc.val)
          /\ cursor' = IF parsed_doc.exc THEN Len(file_paths) + 1 ELSE cursor + 1
    /\ UNCHANGED <<pc, file_paths, process_type, completeness_info, document_analyses,
                   process_analysis, output_files, disk, result, last_call, save_failed, insert_failed,
                   has_insert_after, annotatorVars, dedupVars, callVars>>

\* Step 1, one turn of the loop: a file that does not parse is logged and
\* skipped
ParseFile ==
    /\ pc = "parse" /\ cursor <= Len(file_paths)
    /\ \E parsed_doc \in {Lookup(ParsedFiles, file_paths[cursor])} :
          \* parse_document(FileAt(file_paths[cursor]))
          parsed_documents' = IF parsed_doc.exc THEN parsed_documents
                              ELSE Append(parsed_documents, parsed_doc.val)
    /\ cursor' = cursor + 1
    /\ UNCHANGED <<pc, file_paths, process_type, completeness_info, document_analyses,
                   process_analysis, output_files, disk, result, last_call, save_failed, insert_failed,
                   has_insert_after, annotatorVars, dedupVars, callVars>>

\* the end of the loop and `if not parsed_documents`
NoDocumentParsed ==
    /\ pc = "parse" /\ cursor > Len(file_paths)
    /\ parsed_documents = <<>>
    /\ result' = ProcessingResult(FALSE, None, <<>>, <<"No documents could be parsed">>)
    /\ pc' = "done"
    /\ UNCHANGED <<file_paths, cursor, parsed_documents, process_type, completeness_info,
                   document_analyses, process_analysis, output_files, disk, last_call,
                   save_failed, insert_failed, has_insert_after, annotatorVars, dedupVars, callVars>>

\* Steps 2 and 3
IdentifyProcess ==
    /\ pc = "parse" /\ cursor > Len(file_paths)
    /\ parsed_documents # <<>>
    /\ \E identified \in {identify_process_type(parsed_documents)} :
          /\ process_type' = identified
          /\ completeness_info' = verify_document_completeness(parsed_documents, identified[1])
    /\ pc' = "analyze"
    /\ cursor' = 1
    /\ UNCHANGED <<file_paths, parsed_documents, document_analyses, process_analysis,
                   output_files, disk, result, last_call, save_failed, insert_failed, has_insert_after,
                   annotatorVars, dedupVars, callVars>>

\* Step 4, one turn of the loop
AnalyzeDocument ==
    /\ pc = "analyze" /\ cursor <= Len(parsed_documents)
    /\ \E env \in AnalyzeEnvs :
          \* _analyze_single_document(parsed_documents[cursor], env)
          /\ document_analyses' = Append(document_analyses,
                                         Lookup(AnalysisTable, <<parsed_documents[cursor], env>>))
          /\ last_call' = [index |-> cursor, env |-> env]
    /\ cursor' = cursor + 1
    /\ UNCHANGED <<pc, file_paths, parsed_documents, process_type, completeness_info,
                   process_analysis, output_files, disk, result, save_failed, insert_failed,
                   has_insert_after, annotatorVars, dedupVars, callVars>>

\* Step 5
CreateProcessAnalysis ==
    /\ pc = "analyze" /\ cursor > Len(parsed_documents)
    /\ process_analysis' =
          [process_type |-> process_type[1],
           documents_uploaded |-> Len(parsed_documents),
           required_documents |-> completeness_info.total_required,
           missing_documents |-> completeness_info.missing_documents,
           document_analyses |-> document_analyses,
           overall_compliance_score |-> _calculate_overall_score(document_analyses),
           recommendations |-> _generate_process_recommendations(
                                   completeness_info, document_analyses, process_type[1])]
    /\ pc' = "mkdir"
    /\ last_call' = None
    /\ UNCHANGED <<file_paths, cursor, parsed_documents, process_type, completeness_info,
                   document_analyses, output_files, disk, result, save_failed, insert_failed,
                   has_insert_after, annotatorVars, dedupVars, callVars>>

\* Path(output_dir).mkdir(parents=True, exist_ok=True) creates the directory
MakeOutputDir ==
    /\ pc = "mkdir"
    /\ pc' = "annotate"
    /\ cursor' = 1
    /\ UNCHANGED <<file_paths, parsed_documents, process_type, completeness_info,
                   document_analyses, process_analysis, output_files, disk, result,
                   last_call, save_failed, insert_failed, has_insert_after, annotatorVars, dedupVars, callVars>>

\* ... or raises (the path is taken by a file, or may not be written): the
\* call stands outside the per-document try, so the outer handler answers
MakeOutputDirFails ==
    /\ pc = "mkdir"
    /\ result' = ProcessingResult(FALSE, None, <<>>, <<"mkdir failed">>)
    /\ pc' = "done"
    /\ UNCHANGED <<file_paths, cursor, parsed_documents, process_type, completeness_info,
                   document_analyses, process_analysis, output_files, disk, last_call,
                   save_failed, insert_failed, has_insert_after, annotatorVars, dedupVars, callVars>>

OutputPath(filename) == "data/outputs/reviewed_" \o filename

\* doc.save(path): the file at path is replaced
Save(files, path, doc) ==
    SelectSeq(files, LAMBDA f : f.path # path) \o <<[path |-> path, doc |-> doc]>>

\* Step 6, one turn of the loop for a document with issues: the document
\* object is annotated in place, then saved; a save that raises is logged.
\* failing names the insertion that raises inside _insert_comment, 0 for none
AnnotateAndSave ==
    /\ pc = "annotate" /\ cursor <= Len(parsed_documents)
    /\ document_analyses[cursor].issues # <<>>
    /\ \E highlights \in Lookup(HighlightTable, <<parsed_documents[cursor].docx_object,
                                                   document_analyses[cursor].issues>>),
          saved \in BOOLEAN :
          \E failing \in 0..Lookup(InsertionCounts, <<parsed_documents[cursor].docx_object,
                                                      document_analyses[cursor].issues,
                                                      highlights>>) :
          \* annotate_document(docx_object, issues, highlights, has_insert_after)
          \E annotated_doc \in {IF failing = 0
                                THEN Lookup(AnnotationTable,
                                            <<parsed_documents[cursor].docx_object,
                                              document_analyses[cursor].issues,
                                              highlights, has_insert_after>>)
                                ELSE Lookup(FailingAnnotationTable,
                                            <<parsed_documents[cursor].docx_object,
                                              document_analyses[cursor].issues,
                                              highlights, has_insert_after, failing>>)} :
             /\ parsed_documents' =
                    [parsed_documents EXCEPT ![cursor].docx_object = annotated_doc]
             /\ insert_failed' = IF failing = 0 THEN insert_failed
                                 ELSE insert_failed \cup {cursor}
             /\ IF saved
                THEN /\ disk' = Save(disk, OutputPath(parsed_documents[cursor].filename),
                                     annotated_doc)
                     /\ output_files' = Append(output_files,
                                               OutputPath(parsed_documents[cursor].filename))
                     /\ UNCHANGED save_failed
                ELSE /\ save_failed' = save_failed \cup {cursor}
                     /\ UNCHANGED <<disk, output_files>>
    /\ cursor' = cursor + 1
    /\ UNCHANGED <<pc, file_paths, process_type, completeness_info, document_analyses,
                   process_analysis, result, last_call, has_insert_after, annotatorVars,
                   dedupVars, callVars>>

\* ... and for a document without issues: `if analysis.issues` is false,
\* nothing is annotated and nothing is written
SkipDocumentWithoutIssues ==
    /\ pc = "annotate" /\ cursor <= Len(parsed_documents)
    /\ document_analyses[cursor].issues = <<>>
    /\ cursor' = cursor + 1
    /\ UNCHANGED <<pc, file_paths, parsed_documents, process_type, completeness_info,
                   document_analyses, process_analysis, output_files, disk, result,
                   last_call, save_failed, insert_failed, has_insert_after, annotatorVars, dedupVars, callVars>>

\* the return of the result
ReturnResult ==
    /\ pc = "annotate" /\ cursor > Len(parsed_documents)
    /\ result' = ProcessingResult(TRUE, process_analysis,
                                  IF output_files # <<>> THEN <<output_files[1]>> ELSE <<>>,
                                  <<>>)
    /\ pc' = "done"
    /\ UNCHANGED <<file_paths, cursor, parsed_documents, process_type, completeness_info,
                   document_analyses, process_analysis, output_files, disk, last_call,
                   save_failed, insert_failed, has_insert_after, annotatorVars, dedupVars, callVars>>

Next ==
    \/ ParseFile
    \/ NoDocumentParsed
    \/ IdentifyProcess
    \/ AnalyzeDocument
    \/ CreateProcessAnalysis
    \/ MakeOutputDir
    \/ MakeOutputDirFails
    \/ AnnotateAndSave
    \/ SkipDocumentWithoutIssues
    \/ ReturnResult

Spec == Init /\ [][Next]_vars
\* ------------------------------------------------------------------------
\* Properties of process_documents
\* ------------------------------------------------------------------------

\* C1: when exactly one of the five checks of check_compliance raises, every
\* issue the other four checks produce for the document is in its analysis
C1_OtherChecksSurvive ==
    (pc = "analyze" /\ cursor > 1 /\ Cardinality(last_call.env.faulty) = 1) =>
        LET checked == Lookup(CheckTable, parsed_documents[last_call.index])
            issues == document_analyses[last_call.index].issues
        IN \A c \in 1..Len(CheckNames) :
              CheckNames[c] \notin last_call.env.faulty =>
                 \A k \in 1..Len(checked[CheckNames[c]]) :
                    \E m \in 1..Len(issues) : issues[m] = checked[CheckNames[c]][k]

\* C2: when an advisory call fails (the search of the reference store or
\* the language model raises) and no advisory call adds a finding, the
\* analysis holds the deduplicated issues of the rule engine and the score
\* computed from them
C2_AdvisoryFailureKeepsRuleIssues ==
    LET Failed(e) == e.search = "error" \/ e.llm = "error"
        Quiet(e) == Failed(e) \/ e.reply = <<>>
    IN (/\ pc = "analyze" /\ cursor > 1
        /\ last_call.env.faulty = {}
        /\ Failed(last_call.env.rag) \/ Failed(last_call.env.flags)
        /\ Quiet(last_call.env.rag) /\ Quiet(last_call.env.flags)) =>
           LET parsed_doc == parsed_documents[last_call.index]
               analysis == document_analyses[last_call.index]
               kept == _deduplicate_issues(Lookup(ComplianceTable, <<parsed_doc, {}>>).val)
           IN /\ analysis.issues = kept
              /\ analysis.compliance_score =
                    _calculate_compliance_score(kept, Len(Split(parsed_doc.text_content)))

\* C5: process_documents returns success = False exactly when no input file
\* was parsed
C5_FailsOnlyWithoutParsedInput ==
    pc = "done" => ((~result.success) <=> (parsed_documents = <<>>))

\* C6: once the files are analysed, document_analyses names the files that
\* parsed, each once and in input order, and a successful result returns it
C6_OneAnalysisPerParsedFile ==
    pc \in {"mkdir", "annotate", "done"} =>
        /\ [i \in 1..Len(document_analyses) |-> document_analyses[i].filename]
              = SelectSeq(file_paths, LAMBDA path : ~Lookup(ParsedFiles, path).exc)
        /\ (result # None /\ result.success) =>
              result.analysis.document_analyses = document_analyses

\* a batch whose first file did not parse and whose second did was
\* processed to the end
C6_Witness ==
    /\ pc = "done" /\ result.success
    /\ Len(file_paths) = 2
    /\ Lookup(ParsedFiles, file_paths[1]).exc
    /\ ~Lookup(ParsedFiles, file_paths[2]).exc
    /\ Len(result.analysis.document_analyses) = 1
    /\ result.analysis.document_analyses[1].filename = file_paths[2]

\* C7: every returned analysis without issues has the score 100.0
C7_NoIssuesMeansFullScore ==
    (pc = "done" /\ result.success) =>
        \A i \in 1..Len(result.analysis.document_analyses) :
            result.analysis.document_analyses[i].issues = <<>> =>
                result.analysis.document_analyses[i].compliance_score = FullScore

\* C8: after a successful run the output directory holds a copy of every
\* parsed document whose save did not raise, and the copy of a document
\* without issues has no comment paragraph
C8_CopyForEveryDocument ==
    (pc = "done" /\ result.success) =>
        \A i \in 1..Len(parsed_documents) :
            i \notin save_failed =>
                \E k \in 1..Len(disk) :
                    /\ disk[k].path = OutputPath(parsed_documents[i].filename)
                    /\ document_analyses[i].issues = <<>> =>
                          \A q \in 1..Len(disk[k].doc.paragraphs) :
                              disk[k].doc.paragraphs[q].kind # "comment"

\* the comment paragraphs of a document
CommentParagraphs(doc) ==
    {q \in 1..Len(doc.paragraphs) : doc.paragraphs[q].kind = "comment"}

\* the issues of the i-th analysis that are matched to a paragraph of the
\* document as it was read
PlacedIssues(i) ==
    Lookup(PlacedTable, <<FileAt(parsed_documents[i].filename).doc, document_analyses[i].issues>>)

\* C12: through the annotation step, whatever insertion raises, the process
\* analysis holds the analyses made in Step 4, each of them an analysis of
\* the document as it was read; a run in which the insertion of a comment
\* raised ends with success and returns that process analysis, and every
\* other insertion of that document was made (one comment paragraph per
\* placed issue but the one that raised)
C12_AnnotationFailureKeepsResult ==
    /\ (pc \in {"annotate", "done"} /\ parsed_documents # <<>>) =>
          /\ process_analysis.document_analyses = document_analyses
          /\ process_analysis.overall_compliance_score
                = _calculate_overall_score(document_analyses)
          /\ \A i \in 1..Len(document_analyses) :
                \E env \in AnalyzeEnvs :
                    document_analyses[i]
                        = Lookup(AnalysisTable,
                                 <<Lookup(ParsedFiles, parsed_documents[i].filename).val, env>>)
    /\ (pc = "done" /\ insert_failed # {}) =>
          /\ result.success
          /\ result.analysis = process_analysis
          /\ \A i \in insert_failed :
                Cardinality(CommentParagraphs(parsed_documents[i].docx_object))
                    = Cardinality(PlacedIssues(i)) - 1

\* a run ended after the first of several insertions of a document raised
\* and the later ones were made
C12_Witness ==
    /\ pc = "done" /\ result.success
    /\ \E i \in insert_failed :
          /\ Cardinality(PlacedIssues(i)) >= 3
          /\ Cardinality(CommentParagraphs(parsed_documents[i].docx_object)) >= 2
          /\ result.analysis.document_analyses[i].issues # <<>>

\* C14: the document object a parsed record holds keeps the paragraphs it
\* was read with through the annotation step (the annotated document is
\* another object)
C14_IngestedDocumentUnchanged ==
    pc \in {"annotate", "done"} =>
        \A i \in 1..Len(parsed_documents) :
            parsed_documents[i].docx_object.paragraphs
                = FileAt(parsed_documents[i].filename).doc.paragraphs

\* C15: the analysis of a document for which an advisory call failed (the
\* search of the reference store or the language model raised) carries a
\* mark that no analysis made with two successful advisory calls carries:
\* it differs from every analysis of that document made when both succeeded
C15_AdvisoryFailureIsMarked ==
    LET Failed(e) == e.search = "error" \/ e.llm = "error"
        Succeeded(e) == e.search = "ok" /\ e.llm = "ok"
    IN (/\ pc = "analyze" /\ cursor > 1
        /\ last_call.env.faulty = {}
        /\ Failed(last_call.env.rag) \/ Failed(last_call.env.flags)) =>
           \A env \in AnalyzeEnvs :
               (env.faulty = {} /\ Succeeded(env.rag) /\ Succeeded(env.flags)) =>
                   Lookup(AnalysisTable, <<parsed_documents[last_call.index], env>>)
                       # document_analyses[last_call.index]

\* ------------------------------------------------------------------------
\* _deduplicate_issues called on its own
\* ------------------------------------------------------------------------

\* the longest issue list a call is given
MaxIssues == 3

\* issues as the rule engine and the parsed model replies produce them; a
\* reply's "section" may be null, the text "None", or hold an underscore
IssuePool ==
    {DocumentIssue("Current Document", <<"Jurisdiction Clause">>,
                   "Missing ADGM jurisdiction clause", HIGH,
                   <<"Add ADGM jurisdiction clause">>, <<"ADGM Courts Regulations 2015">>),
     DocumentIssue("Current Document", <<"Jurisdiction Clause">>,
                   "Missing ADGM jurisdiction clause", HIGH,
                   <<"Name the ADGM Courts">>, <<"">>),
     DocumentIssue("Current Document", <<"Jurisdiction Clause">>,
                   "Missing ADGM jurisdiction clause", MEDIUM,
                   <<"Add ADGM jurisdiction clause">>, <<"ADGM Courts Regulations 2015">>),
     DocumentIssue("Current Document", <<>>, "x", HIGH, <<"">>, <<"">>),
     DocumentIssue("Current Document", <<"None">>, "x", HIGH, <<"">>, <<"">>),
     DocumentIssue("Current Document", <<"a_b">>, "x", LOW, <<"">>, <<"">>),
     DocumentIssue("Current Document", <<"a">>, "b_x", LOW, <<"">>, <<"">>)}

IssueLists == SeqsUpTo(IssuePool, MaxIssues)

InitDedup ==
    /\ EngineIdle /\ has_insert_after = FALSE /\ AnnotatorIdle /\ CallIdle
    /\ dd_pc = "call"
    /\ dd_in \in IssueLists
    /\ dd_out = <<>> /\ dd_again = <<>>

\* unique_issues = self._deduplicate_issues(all_issues)
Deduplicate ==
    /\ dd_pc = "call"
    /\ dd_out' = _deduplicate_issues(dd_in)
    /\ dd_pc' = "returned"
    /\ UNCHANGED <<engineVars, has_insert_after, annotatorVars, callVars, dd_in, dd_again>>

\* the result is given to _deduplicate_issues once more
DeduplicateAgain ==
    /\ dd_pc = "returned"
    /\ dd_again' = _deduplicate_issues(dd_out)
    /\ dd_pc' = "again"
    /\ UNCHANGED <<engineVars, has_insert_after, annotatorVars, callVars, dd_in, dd_out>>

NextDedup ==
    \/ Deduplicate
    \/ DeduplicateAgain

SpecDedup == InitDedup /\ [][NextDedup]_vars

\* C9: _deduplicate_issues returns exactly the issues of its input that are
\* the first of their (section, issue text, severity) triple, in input order
\* (an absent section is a section of its own)
C9_FirstOfEachTriple ==
    dd_pc \in {"returned", "again"} =>
        LET Triple(issue) == <<issue.section, issue.issue, issue.severity>>
            first == {i \in 1..Len(dd_in) :
                         \A j \in 1..(i - 1) : Triple(dd_in[j]) # Triple(dd_in[i])}
        IN dd_out = [k \in 1..Cardinality(first) |->
                        dd_in[CHOOSE i \in first :
                                 Cardinality({j \in first : j <= i}) = k]]

\* C10: deduplicating a deduplicated list changes nothing
C10_DedupIdempotent == dd_pc = "again" => dd_again = dd_out

\* a list with repeated issues was deduplicated twice, and some are left
C10_Witness ==
    /\ dd_pc = "again"
    /\ Len(dd_in) = MaxIssues
    /\ Len(dd_out) < Len(dd_in)
    /\ \E i, j \in 1..Len(dd_in) : i # j /\ dd_in[i] = dd_in[j]
    /\ dd_again = dd_out /\ dd_out # <<>>

\* ------------------------------------------------------------------------
\* annotate_document called on its own, one insertion at a time
\* ------------------------------------------------------------------------

\* the longest issue list drawn freely from AnnotatedIssues
MaxAnnotated == 2

\* issues that find the third paragraph of articles.docx (twice), its fourth,
\* second and first, and one that finds none
AnnotatedIssues ==
    << DocumentIssue("Articles of Association", <<"Jurisdiction Clause">>,
                     "Missing ADGM jurisdiction clause", HIGH,
                     <<"Add ADGM jurisdiction clause">>, <<"ADGM Courts Regulations 2015">>),
       DocumentIssue("Articles of Association", <<"Jurisdiction Clause">>,
                     "Incorrect jurisdiction reference: 'dubai courts'", CRITICAL,
                     <<"Replace with ADGM Courts jurisdiction">>,
                     <<"ADGM Courts Regulations 2015">>),
       DocumentIssue("Articles of Association", <<"Signature Section">>,
                     "Missing signature section", MEDIUM,
                     <<"Add proper signature section with date and witness fields">>,
                     <<"ADGM Document Standards">>),
       DocumentIssue("Current Document", <<"Share capital">>,
                     "Share classes are not described", LOW, <<"">>, <<"">>),
       DocumentIssue("Current Document", <<"Articles">>,
                     "The heading does not name the company", LOW, <<"">>, <<"">>),
       DocumentIssue("Articles of Association", <<"Required Clauses">>,
                     "Missing required clause: Company Name", HIGH,
                     <<"Add Company Name clause">>,
                     <<"ADGM Companies Regulations 2020, Art. 15">>) >>

\* the lists annotate_document is given: the short ones, and the whole of
\* AnnotatedIssues (more issues than the summary shows)
\* two issues that find the third paragraph of articles.docx and have no
\* keyword in common
SharedParagraphIssues ==
    << AnnotatedIssues[1],
       DocumentIssue("Current Document", <<"Disputes">>, "The forum is left open", LOW,
                     <<"">>, <<"">>) >>

AnnotatedIssueLists ==
    SeqsUpTo(Range(AnnotatedIssues), MaxAnnotated) \cup {AnnotatedIssues, SharedParagraphIssues}

AnnotatedDocuments == {Files[k].doc : k \in {2}}

InitAnnotate ==
    /\ EngineIdle /\ DedupIdle /\ CallIdle
    /\ has_insert_after \in BOOLEAN
    /\ an_pc = "create"
    /\ an_source \in AnnotatedDocuments
    /\ an_doc = an_source
    /\ an_issues \in AnnotatedIssueLists
    /\ an_pending = <<>> /\ an_applied = <<>>

\* comment_insertions = self._create_comment_insertions(...), then
\* comment_insertions.sort(key=paragraph_index, reverse=True)
CreateInsertions ==
    /\ an_pc = "create"
    /\ \E highlights \in HighlightChoices(an_issues, an_doc) :
          an_pending' = SortByIndexDescending(
                            _create_comment_insertions(an_issues, an_doc, highlights))
    /\ an_pc' = "insert"
    /\ UNCHANGED <<engineVars, has_insert_after, dedupVars, callVars, an_source, an_doc, an_issues, an_applied>>

\* one turn of `for insertion in comment_insertions`
InsertComment ==
    /\ an_pc = "insert" /\ an_pending # <<>>
    /\ an_doc' = _insert_comment(an_doc, Head(an_pending))
    /\ an_pending' = Tail(an_pending)
    /\ an_applied' = Append(an_applied, Head(an_pending))
    /\ UNCHANGED <<engineVars, has_insert_after, dedupVars, callVars, an_pc, an_source, an_issues>>

\* self._add_summary_section(doc, issues), and the return
AddSummary ==
    /\ an_pc = "insert" /\ an_pending = <<>>
    /\ an_doc' = _add_summary_section(an_doc, an_issues, has_insert_after)
    /\ an_pc' = "done"
    /\ UNCHANGED <<engineVars, has_insert_after, dedupVars, callVars, an_source, an_issues, an_pending, an_applied>>

NextAnnotate ==
    \/ CreateInsertions
    \/ InsertComment
    \/ AddSummary

SpecAnnotate == InitAnnotate /\ [][NextAnnotate]_vars

\* C3: once every insertion is applied, the original paragraphs are all
\* there in their order, there is one comment paragraph per issue that found
\* a paragraph, and the nearest original paragraph before a comment
\* paragraph is the one its issue was matched to
C3_CommentsFollowTheirParagraph ==
    (an_pc \in {"insert", "done"} /\ an_pending = <<>>) =>
        LET paragraphs == an_doc.paragraphs
            Originals == {q \in 1..Len(paragraphs) : paragraphs[q].kind = "orig"}
            Comments == {q \in 1..Len(paragraphs) : paragraphs[q].kind = "comment"}
            found == {i \in 1..Len(an_issues) :
                         _find_best_paragraph(an_issues[i], ParTexts(an_source)) # 0}
        IN /\ SelectSeq(paragraphs, LAMBDA paragraph : paragraph.kind = "orig")
                 = [q \in 1..Len(an_source.paragraphs) |->
                       [an_source.paragraphs[q] EXCEPT !.runs = paragraphs[CHOOSE r \in Originals : paragraphs[r].orig = q].runs]]
           /\ Cardinality(Comments) = Cardinality(found)
           /\ \A q \in Comments :
                 /\ \E r \in Originals : r < q
                 /\ paragraphs[CHOOSE r \in Originals :
                                  r < q /\ \A o \in Originals : o < q => o <= r].orig
                       = paragraphs[q].target

\* a document came out with two comments for one paragraph and a comment
\* for another paragraph
C3_Witness ==
    /\ an_pc = "done"
    /\ \E q1, q2, q3 \in 1..Len(an_doc.paragraphs) :
          /\ q1 # q2
          /\ an_doc.paragraphs[q1].kind = "comment"
          /\ an_doc.paragraphs[q2].kind = "comment"
          /\ an_doc.paragraphs[q3].kind = "comment"
          /\ an_doc.paragraphs[q1].target = an_doc.paragraphs[q2].target
          /\ an_doc.paragraphs[q3].target < an_doc.paragraphs[q1].target

\* the original paragraphs of a document, in the order they stand in it
OriginalParagraphs(doc) == SelectSeq(doc.paragraphs, LAMBDA paragraph : paragraph.kind = "orig")

\* C13: at every point of annotate_document the original paragraphs are all
\* in the document, in their order and each with the text it had; a
\* paragraph whose runs were rebuilt has one highlighted run, at most one
\* run before and one after it, and the document has not fewer paragraphs
\* than it had
C13_OriginalParagraphsKept ==
    LET originals == OriginalParagraphs(an_doc)
    IN /\ Len(originals) = Len(an_source.paragraphs)
       /\ Len(an_doc.paragraphs) >= Len(an_source.paragraphs)
       /\ \A q \in 1..Len(originals) :
             /\ originals[q].orig = q
             /\ ParText(originals[q]) = ParText(an_source.paragraphs[q])
             /\ \/ originals[q] = an_source.paragraphs[q]
                \/ /\ Len(originals[q].runs) <= 3
                   /\ Cardinality({r \in 1..Len(originals[q].runs) :
                                      originals[q].runs[r].highlight}) = 1
                   /\ \A r \in 1..Len(originals[q].runs) :
                         originals[q].runs[r].highlight =>
                             /\ r <= 2
                             /\ r >= Len(originals[q].runs) - 1

\* annotate_document returned a document in which a paragraph is split
\* around a highlighted match and a comment follows it
C13_Witness ==
    /\ an_pc = "done"
    /\ Len(an_doc.paragraphs) > Len(an_source.paragraphs)
    /\ \E q \in 1..Len(an_doc.paragraphs) :
          /\ an_doc.paragraphs[q].kind = "orig"
          /\ Len(an_doc.paragraphs[q].runs) >= 2
          /\ \E r \in 1..Len(an_doc.paragraphs[q].runs) : an_doc.paragraphs[q].runs[r].highlight
          /\ q < Len(an_doc.paragraphs)
          /\ an_doc.paragraphs[q + 1].kind = "comment"

RECURSIVE HighlightFlags(_)
\* one flag per character of a paragraph: whether its run is highlighted
HighlightFlags(runs) ==
    IF runs = <<>> THEN <<>>
    ELSE [k \in 1..Len(runs[1].text) |-> runs[1].highlight] \o HighlightFlags(Tail(runs))

\* the first case-insensitive occurrence of span in the paragraph lies in
\* highlighted runs
SpanHighlighted(paragraph, span) ==
    LET start_index == Find(Lower(ParText(paragraph)), Lower(span))
        flags == HighlightFlags(paragraph.runs)
    IN /\ start_index # 0
       /\ \A k \in start_index..(start_index + Len(span) - 1) : flags[k]

\* C25: when annotate_document has finished, the span of every insertion
\* the loop applied with a highlight_text is highlighted in the paragraph the
\* insertion was matched to
C25_HighlightsKept ==
    an_pc = "done" =>
        \A k \in 1..Len(an_applied) :
            Truthy(an_applied[k].highlight_text) =>
                \A q \in 1..Len(an_doc.paragraphs) :
                    (an_doc.paragraphs[q].kind = "orig"
                     /\ an_doc.paragraphs[q].orig = an_applied[k].paragraph_index) =>
                        SpanHighlighted(an_doc.paragraphs[q], an_applied[k].highlight_text[1])

\* C4: for a document with issues, the paragraphs before the first original
\* paragraph are the title, then the lines of the summary in the order of
\* _create_summary_content (total, Critical, High, Medium, Low, the first
\* five issues, the "more" line), then the separator as the last one
C4_SummaryReadsInOrder ==
    (an_pc = "done" /\ an_issues # <<>>) =>
        LET paragraphs == an_doc.paragraphs
            first == CHOOSE q \in 1..Len(paragraphs) :
                        /\ paragraphs[q].kind = "orig"
                        /\ \A r \in 1..(q - 1) : paragraphs[r].kind # "orig"
            block == SubSeq(paragraphs, 1, first - 1)
            lines == SelectSeq(block, LAMBDA paragraph : paragraph.kind = "line")
        IN /\ Len(block) = Len(lines) + 2
           /\ block[1].kind = "title"
           /\ block[Len(block)].kind = "separator"
           /\ [k \in 1..Len(lines) |-> ParText(lines[k])] = _create_summary_content(an_issues)

\* ------------------------------------------------------------------------
\* Functions called on their own
\* ------------------------------------------------------------------------

\* everything but the call is at rest
OthersIdle == EngineIdle /\ has_insert_after = FALSE /\ AnnotatorIdle /\ DedupIdle

\* the returns of the calls below leave everything else alone
OthersUnchanged == UNCHANGED <<engineVars, has_insert_after, annotatorVars, dedupVars>>

\* --- _calculate_compliance_score and _calculate_overall_score -----------

\* the longest issue list drawn freely from the four severities
MaxScored == 2

\* an issue of a severity (the score reads nothing else)
ScoredIssue(severity) ==
    DocumentIssue("Current Document", <<"Clause">>, "finding", severity, <<"">>, <<"">>)

\* the issue lists scored: the short ones, and lists of Critical issues
\* whose penalty passes 100 for a short document
ScoredIssueLists ==
    SeqsUpTo({ScoredIssue(severity) : severity \in SeverityLevel}, MaxScored)
    \cup {[i \in 1..n |-> ScoredIssue(CRITICAL)] : n \in {6, 7, 8}}

\* word counts around the 100-word unit, and an empty document
ScoredWordCounts == {0, 1, 99, 100, 101, 250, 1500}

\* the analyses a document's analysis is averaged with
OtherAnalyses ==
    { <<>>,
      << [word_count |-> 0, compliance_score |-> 0] >>,
      << [word_count |-> 1500, compliance_score |-> FullScore] >>,
      << [word_count |-> 250, compliance_score |-> 925],
         [word_count |-> 18, compliance_score |-> 590] >> }

InitScore ==
    /\ OthersIdle
    /\ fn_pc = "call"
    /\ fn_in \in [issues : ScoredIssueLists, word_count : ScoredWordCounts]
    /\ fn_out = None /\ fn_again = None

\* compliance_score = self._calculate_compliance_score(unique_issues, word count)
CalculateComplianceScore ==
    /\ fn_pc = "call"
    /\ fn_out' = [word_count |-> fn_in.word_count,
                  compliance_score |-> _calculate_compliance_score(fn_in.issues, fn_in.word_count)]
    /\ fn_pc' = "scored"
    /\ UNCHANGED <<fn_in, fn_again>>
    /\ OthersUnchanged

\* overall_compliance_score = self._calculate_overall_score(document_analyses)
CalculateOverallScore ==
    /\ fn_pc = "scored"
    /\ \E others \in OtherAnalyses :
          fn_again' = _calculate_overall_score(<<fn_out>> \o others)
    /\ fn_pc' = "overall"
    /\ UNCHANGED <<fn_in, fn_out>>
    /\ OthersUnchanged

NextScore ==
    \/ CalculateComplianceScore
    \/ CalculateOverallScore

SpecScore == InitScore /\ [][NextScore]_vars

\* C11: the score of a document and the overall score lie between 0 and
\* 100 (1000 tenths)
C11_ScoresInRange ==
    /\ fn_pc \in {"scored", "overall"} =>
          (fn_out.compliance_score >= 0 /\ fn_out.compliance_score <= FullScore)
    /\ fn_pc = "overall" => (fn_again >= 0 /\ fn_again <= FullScore)

\* a document whose penalty passes 100 was scored 0, and averaged with
\* others to a score above 0
C11_Witness ==
    /\ fn_pc = "overall"
    /\ Len(fn_in.issues) >= 7 /\ fn_in.word_count <= WordsPerUnit
    /\ fn_out.compliance_score = 0
    /\ fn_again > 0 /\ fn_again < FullScore

\* ------------------------------------------------------------------------
\* _identify_document_type called on its own
\* ------------------------------------------------------------------------

\* lines a text is made of: they match one pattern of a type, two patterns
\* of a type, a pattern of two types, or none
TextLines ==
    << "Articles of Association",
       "Share capital and dividend",
       "Company name and registered office",
       "Memorandum of Association",
       "Resolved that the board of directors",
       "General meeting",
       "Special resolution",
       "Meeting notes" >>

\* the most lines a text has
MaxLines == 3

\* the texts: the lines of a choice of at most MaxLines lines, in their order
Texts ==
    {JoinLines(SelectSeq([k \in 1..Len(TextLines) |-> IF k \in chosen THEN TextLines[k] ELSE ""],
                         LAMBDA line : line # "")) :
        chosen \in {c \in SUBSET (1..Len(TextLines)) : Cardinality(c) <= MaxLines}}

InitIdentify ==
    /\ OthersIdle
    /\ fn_pc = "call"
    /\ fn_in \in Texts
    /\ fn_out = None /\ fn_again = None

\* doc_type, confidence = self._identify_document_type(text_content)
IdentifyDocumentType ==
    /\ fn_pc = "call"
    /\ fn_out' = _identify_document_type(fn_in)
    /\ fn_pc' = "identified"
    /\ UNCHANGED <<fn_in, fn_again>>
    /\ OthersUnchanged

\* a second call on the same text
IdentifyDocumentTypeAgain ==
    /\ fn_pc = "identified"
    /\ fn_again' = _identify_document_type(fn_in)
    /\ fn_pc' = "again"
    /\ UNCHANGED <<fn_in, fn_out>>
    /\ OthersUnchanged

NextIdentify ==
    \/ IdentifyDocumentType
    \/ IdentifyDocumentTypeAgain

SpecIdentify == InitIdentify /\ [][NextIdentify]_vars

\* the types whose share of matched patterns no other type's share exceeds
TopTypes(text_lower) ==
    {t \in 1..Len(document_type_patterns) :
        \A u \in 1..Len(document_type_patterns) :
            FracGeq(TypeScore(t, text_lower), TypeScore(u, text_lower))}

\* C16: the result names a type of the highest share of matched patterns
\* together with that share when the highest share is at least 0.30, and is
\* (Other, 0.0) when it is not; no type but Other comes with a confidence
\* under 0.30 and Other comes with no confidence but 0
C16_BestTypeOrOther ==
    fn_pc \in {"identified", "again"} =>
        LET text_lower == Lower(fn_in)
            top == TopTypes(text_lower)
            accepted == \E t \in top : 10 * TypeScore(t, text_lower).num
                                            >= 3 * TypeScore(t, text_lower).den
        IN /\ accepted =>
                 \E t \in top : fn_out = <<document_type_patterns[t].type,
                                           TypeScore(t, text_lower)>>
           /\ ~accepted => fn_out = <<OTHER_TYPE, Frac(0, 1)>>
           /\ fn_out[1] # OTHER_TYPE => 10 * fn_out[2].num >= 3 * fn_out[2].den
           /\ fn_out[1] = OTHER_TYPE => fn_out[2].num = 0

\* a text that matches two of the seven patterns of a type and fewer of
\* every other type was identified as Other with confidence 0
C16_Witness ==
    /\ fn_pc = "identified"
    /\ fn_out = <<OTHER_TYPE, Frac(0, 1)>>
    /\ \E t \in TopTypes(Lower(fn_in)) : TypeScore(t, Lower(fn_in)) = Frac(2, 7)

\* C17: the second call on a text returns what the first returned, and
\* when several types share the highest share of matched patterns (at
\* least 0.30) both calls return the one that stands first in the pattern
\* table
C17_SameTypeEveryCall ==
    /\ fn_pc = "again" => fn_again = fn_out
    /\ fn_pc \in {"identified", "again"} =>
          LET top == TopTypes(Lower(fn_in))
          IN fn_out[1] # OTHER_TYPE =>
                 /\ fn_out[1] \in {document_type_patterns[t].type : t \in top}
                 /\ \A t \in top : fn_out[1] = document_type_patterns[t].type =>
                                        \A u \in top : t <= u

\* a text in which two types share the highest share was identified twice
C17_Witness ==
    /\ fn_pc = "again"
    /\ fn_out[1] # OTHER_TYPE
    /\ Cardinality(TopTypes(Lower(fn_in))) >= 2

\* ------------------------------------------------------------------------
\* identify_process_type and verify_document_completeness called on their own
\* ------------------------------------------------------------------------

\* the types the uploaded documents carry: types the incorporation
\* checklist names, one that stands for a requirement under another name,
\* Other, and a name of the licence checklist
UploadedTypeNames ==
    {ARTICLES_OF_ASSOCIATION, MEMORANDUM_OF_ASSOCIATION, SHAREHOLDER_RESOLUTION, OTHER_TYPE,
     "Business Plan"}

\* the most documents a batch has
MaxUploaded == 2

UploadedBatches ==
    SeqsUpTo({[document_type |-> name] : name \in UploadedTypeNames}, MaxUploaded)

InitProcess ==
    /\ OthersIdle
    /\ fn_pc = "call"
    /\ fn_in \in UploadedBatches
    /\ fn_out = None /\ fn_again = None

\* process_type, process_confidence = identify_process_type(parsed_documents)
IdentifyProcessType ==
    /\ fn_pc = "call"
    /\ fn_out' = identify_process_type(fn_in)
    /\ fn_pc' = "identified"
    /\ UNCHANGED <<fn_in, fn_again>>
    /\ OthersUnchanged

\* verify_document_completeness(parsed_documents, process_type), for the
\* process identified or any other
VerifyDocumentCompleteness ==
    /\ fn_pc = "identified"
    /\ \E process \in Range(ProcessType) :
          fn_again' = verify_document_completeness(fn_in, process)
    /\ fn_pc' = "verified"
    /\ UNCHANGED <<fn_in, fn_out>>
    /\ OthersUnchanged

NextProcess ==
    \/ IdentifyProcessType
    \/ VerifyDocumentCompleteness

SpecProcess == InitProcess /\ [][NextProcess]_vars

\* the processes whose share of present requirements no other's exceeds
TopProcesses(doc_type_names) ==
    {p \in 1..Len(process_requirements) :
        \A q \in 1..Len(process_requirements) :
            FracGeq(ProcessScore(p, doc_type_names), ProcessScore(q, doc_type_names))}

\* C18: the result names a process of the highest share of present
\* requirements together with that share when the highest share is at least
\* 0.40 (2 of 5 included), and is (Other, 0.0) when it is not
C18_BestProcessOrOther ==
    fn_pc \in {"identified", "verified"} =>
        LET doc_type_names == TypeNames(fn_in)
            top == TopProcesses(doc_type_names)
            accepted == \E p \in top : 5 * ProcessScore(p, doc_type_names).num
                                            >= 2 * ProcessScore(p, doc_type_names).den
        IN /\ accepted =>
                 \E p \in top : fn_out = <<process_requirements[p].process,
                                           ProcessScore(p, doc_type_names)>>
           /\ ~accepted => fn_out = <<"Other", Frac(0, 1)>>

\* a batch with two of the five documents of the incorporation checklist
\* was identified as Company Incorporation with confidence 2/5
C18_Witness ==
    /\ fn_pc = "identified"
    /\ fn_out = <<"Company Incorporation", Frac(2, 5)>>

\* the requirement list of a process, read from the table
RequirementList(process) ==
    IF \E p \in 1..Len(process_requirements) : process_requirements[p].process = process
    THEN process_requirements[CHOOSE p \in 1..Len(process_requirements) :
                                 process_requirements[p].process = process].required
    ELSE <<>>

\* C19: present_documents and missing_documents are the requirement list
\* split in two, each in the order of the list; a requirement that is the
\* type of an uploaded document is present; the percentage is
\* 100 * present / required, and 100 when nothing is required; Articles and
\* Memorandum of Association against the incorporation checklist give 40
\* and the other three requirements missing, in their order
C19_CompletenessSplitsRequirements ==
    fn_pc = "verified" =>
        LET required == RequirementList(fn_again.process_type)
            present == fn_again.present_documents
            missing == fn_again.missing_documents
            percentage == fn_again.completeness_percentage
        IN /\ present = SelectSeq(required, LAMBDA r : r \in Range(present))
           /\ missing = SelectSeq(required, LAMBDA r : r \notin Range(present))
           /\ \A r \in Range(required) :
                 r \in Range(TypeNames(fn_in)) => r \in Range(present)
           /\ IF required = <<>>
              THEN percentage.num = 100 * percentage.den
              ELSE percentage.num * Len(required) = 100 * Len(present) * percentage.den
           /\ (/\ fn_again.process_type = "Company Incorporation"
               /\ Range(TypeNames(fn_in)) = {ARTICLES_OF_ASSOCIATION, MEMORANDUM_OF_ASSOCIATION}) =>
                  /\ percentage.num = 40 * percentage.den
                  /\ missing = <<"UBO Declaration Form", "Register of Members and Directors",
                                 "Board Resolution Templates">>

\* the Memorandum and the Articles of Association, uploaded in this order,
\* were verified against the incorporation checklist
C19_Witness ==
    /\ fn_pc = "verified"
    /\ TypeNames(fn_in) = <<MEMORANDUM_OF_ASSOCIATION, ARTICLES_OF_ASSOCIATION>>
    /\ fn_again.process_type = "Company Incorporation"
    /\ fn_again.present_documents = <<ARTICLES_OF_ASSOCIATION, MEMORANDUM_OF_ASSOCIATION>>
    /\ Len(fn_again.missing_documents) = 3

\* C29: a requirement is reported present only when an uploaded document
\* is classified as that very type
C29_PresentMeansSameType ==
    fn_pc = "verified" =>
        \A r \in Range(fn_again.present_documents) : r \in Range(TypeNames(fn_in))

\* ------------------------------------------------------------------------
\* identify_process_type called on batches of classified documents
\* ------------------------------------------------------------------------

\* the most documents a classified batch has
MaxTyped == 2

\* every document carries a value of DocumentType
TypedBatches ==
    SeqsUpTo({[document_type |-> name] : name \in Range(DocumentType)}, MaxTyped)

InitTyped ==
    /\ OthersIdle
    /\ fn_pc = "call"
    /\ fn_in \in TypedBatches
    /\ fn_out = None /\ fn_again = None

\* process_type, process_confidence = identify_process_type(parsed_documents)
IdentifyTypedProcess ==
    /\ fn_pc = "call"
    /\ fn_out' = identify_process_type(fn_in)
    /\ fn_pc' = "identified"
    /\ UNCHANGED <<fn_in, fn_again>>
    /\ OthersUnchanged

NextTyped == IdentifyTypedProcess

SpecTyped == InitTyped /\ [][NextTyped]_vars

\* the requirements of the checklists other than the incorporation one
OtherRequirements ==
    UNION {Range(process_requirements[p].required) :
              p \in {q \in 1..Len(process_requirements) :
                        process_requirements[q].process # "Company Incorporation"}}

\* no value of DocumentType stands for a requirement of another checklist
NoTypeOnOtherChecklists ==
    \A r \in OtherRequirements : \A name \in Range(DocumentType) : ~_documents_match(r, name)

\* C30: for a batch of documents carrying DocumentType values the result
\* is Company Incorporation with a confidence of at least 0.40, or Other
\* with confidence 0; no DocumentType value matches a document of another
\* checklist
C30_IncorporationOrOther ==
    fn_pc = "identified" =>
        /\ \/ fn_out[1] = "Company Incorporation" /\ FracGeq(fn_out[2], Frac(2, 5))
           \/ fn_out = <<"Other", Frac(0, 1)>>
        /\ NoTypeOnOtherChecklists

\* an employment contract and a compliance policy were identified as
\* Other, and a batch of two incorporation documents would not be
C30_Witness ==
    /\ fn_pc = "identified"
    /\ TypeNames(fn_in) = <<EMPLOYMENT_CONTRACT, COMPLIANCE_POLICY>>
    /\ fn_out = <<"Other", Frac(0, 1)>>
    /\ identify_process_type(<<[document_type |-> UBO_DECLARATION],
                               [document_type |-> BOARD_RESOLUTION]>>)
          = <<"Company Incorporation", Frac(2, 5)>>

\* ------------------------------------------------------------------------
\* check_compliance called on its own
\* ------------------------------------------------------------------------

\* paragraphs a checked document is made of: courts that are not allowed,
\* named once, twice, or by two patterns at once, the allowed courts, a
\* heading, and the required clauses of Articles of Association
ClauseLines ==
    << "Articles of Association",
       "1.1 Disputes go to Dubai Courts",
       "1.2 A Dubai court or the Dubai  Courts decide",
       "1.3 UAE Federal Courts of UAE",
       "1.4 Appeals go to Abu Dhabi Courts",
       "1.5 Abu Dhabi Global Market Courts decide",
       "1.6 The ADGM Courts have jurisdiction",
       "2. Company name, share capital and directors powers" >>

\* the most paragraphs a checked document has
MaxClauses == 3

CheckedLines ==
    {SelectSeq([k \in 1..Len(ClauseLines) |-> IF k \in chosen THEN ClauseLines[k] ELSE ""],
               LAMBDA line : line # "") :
        chosen \in {c \in SUBSET (1..Len(ClauseLines)) : Cardinality(c) <= MaxClauses}}

CheckedTypes == {ARTICLES_OF_ASSOCIATION, BOARD_RESOLUTION}

InitCompliance ==
    /\ OthersIdle
    /\ fn_pc = "call"
    /\ \E lines \in CheckedLines, checked_type \in CheckedTypes :
          fn_in = [text |-> _extract_text(PlainDocument(lines)),
                   structured_content |-> _extract_structured_content(PlainDocument(lines)),
                   document_type |-> checked_type]
    /\ fn_out = None /\ fn_again = None

\* compliance_issues = self.compliance_checker.check_compliance(text_content,
\* document_type, structured_content), no check raising
CheckCompliance ==
    /\ fn_pc = "call"
    /\ fn_out' = check_compliance(fn_in.text, fn_in.document_type, fn_in.structured_content, {})
    /\ fn_pc' = "checked"
    /\ UNCHANGED <<fn_in, fn_again>>
    /\ OthersUnchanged

NextCompliance == CheckCompliance

SpecCompliance == InitCompliance /\ [][NextCompliance]_vars

\* the places of a text where a pattern matches
Occurrences(pattern, text_lower) ==
    {i \in 1..Len(text_lower) : MatchEnd(pattern, text_lower, i) # 0}

RECURSIVE CountOccurrences(_, _)
CountOccurrences(patterns, text_lower) ==
    IF patterns = <<>> THEN 0
    ELSE Cardinality(Occurrences(patterns[1], text_lower))
         + CountOccurrences(Tail(patterns), text_lower)

\* C20: for Articles of Association whose text holds 'Dubai Courts' and no
\* allowed phrase for the ADGM courts, check_compliance returns, among its
\* issues, for the jurisdiction clause: one 'Incorrect jurisdiction
\* reference' issue per occurrence of a disallowed phrase, one 'Missing ADGM
\* jurisdiction clause' issue, all of them of High severity, and nothing else
C20_WrongJurisdictionReported ==
    (/\ fn_pc = "checked"
     /\ fn_in.document_type = ARTICLES_OF_ASSOCIATION
     /\ Contains(fn_in.text, "Dubai Courts")
     /\ \A p \in 1..Len(adgm_patterns) : ~ReSearch(adgm_patterns[p], Lower(fn_in.text))) =>
        /\ ~fn_out.exc
        /\ LET on_clause == SelectSeq(fn_out.val,
                                      LAMBDA issue : issue.section = <<"Jurisdiction Clause">>)
               incorrect == SelectSeq(on_clause,
                                      LAMBDA issue : StartsAt(issue.issue,
                                                              "Incorrect jurisdiction reference: '", 1))
               missing == SelectSeq(on_clause,
                                    LAMBDA issue : issue.issue = "Missing ADGM jurisdiction clause")
           IN /\ Len(incorrect) = CountOccurrences(incorrect_jurisdictions, Lower(fn_in.text))
              /\ Len(incorrect) >= 1
              /\ Len(missing) = 1
              /\ Len(on_clause) = Len(incorrect) + Len(missing)
              /\ \A k \in 1..Len(on_clause) : on_clause[k].severity = HIGH
              /\ \A k \in 1..Len(fn_out.val) :
                    Contains(Lower(fn_out.val[k].issue), "jurisdiction") =>
                        fn_out.val[k].section = <<"Jurisdiction Clause">>

\* Articles of Association that name the Dubai courts three times and the
\* ADGM courts never were checked
C20_Witness ==
    /\ fn_pc = "checked"
    /\ fn_in.document_type = ARTICLES_OF_ASSOCIATION
    /\ Contains(fn_in.text, "Dubai Courts")
    /\ \A p \in 1..Len(adgm_patterns) : ~ReSearch(adgm_patterns[p], Lower(fn_in.text))
    /\ Cardinality(Occurrences(incorrect_jurisdictions[2], Lower(fn_in.text))) = 3
    /\ Len(SelectSeq(fn_out.val, LAMBDA issue : issue.section = <<"Jurisdiction Clause">>)) >= 4

\* the issues about the jurisdiction and about missing required clauses
JurisdictionIssues(issues) ==
    SelectSeq(issues, LAMBDA issue : \/ issue.section = <<"Jurisdiction Clause">>
                                     \/ Contains(Lower(issue.issue), "jurisdiction"))

MissingClauseIssues(issues) ==
    SelectSeq(issues, LAMBDA issue : StartsAt(issue.issue, "Missing required clause: ", 1))

\* every required clause of the type has a pattern that matches the text
AllClausesNamed(text, doc_type) ==
    \A c \in 1..Len(required_clauses(doc_type)) :
        \E p \in 1..Len(required_clauses(doc_type)[c].patterns) :
            ReSearch(required_clauses(doc_type)[c].patterns[p], Lower(text))

\* C21 as stated: a text that holds 'ADGM Courts' and a keyword of every
\* required clause of its type gets no jurisdiction issue and no
\* missing-clause issue from check_compliance
C21_NoIssuesWithAdgmCourts ==
    (/\ fn_pc = "checked"
     /\ Contains(fn_in.text, "ADGM Courts")
     /\ AllClausesNamed(fn_in.text, fn_in.document_type)) =>
        /\ ~fn_out.exc
        /\ JurisdictionIssues(fn_out.val) = <<>>
        /\ MissingClauseIssues(fn_out.val) = <<>>

\* C21 as amended: ... and no disallowed jurisdiction phrase
C21_NoIssuesWithOnlyAdgmCourts ==
    (/\ fn_pc = "checked"
     /\ Contains(fn_in.text, "ADGM Courts")
     /\ CountOccurrences(incorrect_jurisdictions, Lower(fn_in.text)) = 0
     /\ AllClausesNamed(fn_in.text, fn_in.document_type)) =>
        /\ ~fn_out.exc
        /\ JurisdictionIssues(fn_out.val) = <<>>
        /\ MissingClauseIssues(fn_out.val) = <<>>

\* Articles of Association that name the ADGM courts, no other court and
\* every required clause were checked
C21_Witness ==
    /\ fn_pc = "checked"
    /\ fn_in.document_type = ARTICLES_OF_ASSOCIATION
    /\ Contains(fn_in.text, "ADGM Courts")
    /\ CountOccurrences(incorrect_jurisdictions, Lower(fn_in.text)) = 0
    /\ AllClausesNamed(fn_in.text, fn_in.document_type)
    /\ fn_out.val # <<>>

\* ------------------------------------------------------------------------
\* _detect_red_flags called on its own
\* ------------------------------------------------------------------------

\* sentences a text is made of: weak-modal expressions used once, three
\* times, twice and four times, and a 'may' that no pattern matches
Sentences ==
    << "The company may do business activities.",
       "It may be sold, may have debts and may do trade.",
       "Directors should have powers.",
       "Perhaps the company will have meetings.",
       "Perhaps on 1/2/2024, perhaps later.",
       "Possibly, possibly, possibly or possibly not.",
       "The company may issue share capital." >>

\* the most sentences a text has
MaxSentences == 3

FlaggedTexts ==
    {JoinLines(SelectSeq([k \in 1..Len(Sentences) |-> IF k \in chosen THEN Sentences[k] ELSE ""],
                         LAMBDA line : line # "")) :
        chosen \in {c \in SUBSET (1..Len(Sentences)) : Cardinality(c) <= MaxSentences}}

InitRedFlags ==
    /\ OthersIdle
    /\ fn_pc = "call"
    /\ fn_in \in [text : FlaggedTexts, document_type : {ARTICLES_OF_ASSOCIATION, BOARD_RESOLUTION}]
    /\ fn_out = None /\ fn_again = None

\* issues.extend(self._detect_red_flags(document_text, document_type))
DetectRedFlags ==
    /\ fn_pc = "call"
    /\ fn_out' = _detect_red_flags(fn_in.text, fn_in.document_type)
    /\ fn_pc' = "flagged"
    /\ UNCHANGED <<fn_in, fn_again>>
    /\ OthersUnchanged

NextRedFlags == DetectRedFlags

SpecRedFlags == InitRedFlags /\ [][NextRedFlags]_vars

\* the issues about ambiguous language
AmbiguousIssues(issues) ==
    SelectSeq(issues, LAMBDA issue : Contains(Lower(issue.issue), "ambiguous"))

\* the number of matches of the p-th weak-modal pattern
ModalCount(p, text) == Cardinality(Occurrences(ambiguous_patterns[p], Lower(text)))

C23_VariedModalsFlagged ==
    (/\ fn_pc = "flagged"
     /\ \A p \in 1..Len(ambiguous_patterns) : ModalCount(p, fn_in.text) <= 1
     /\ Cardinality({p \in 1..Len(ambiguous_patterns) : ModalCount(p, fn_in.text) = 1}) >= 3) =>
        AmbiguousIssues(fn_out) # <<>>

\* ------------------------------------------------------------------------
\* _extract_structured_content called on its own
\* ------------------------------------------------------------------------

\* paragraphs a document is made of: headings, a clause, a blank one, and
\* lines that hold 'signature', 'signed', 'date', or 'date' before 'signed'
ParagraphLines ==
    << "1. First Section",
       "1.1 First subsection",
       "   ",
       "Signature: _______________",
       "Date: _______________",
       "Signed by the director",
       "Dated and then signed below" >>

\* the most paragraphs a document has
MaxParagraphs == 3

StructuredDocuments ==
    {PlainDocument(SelectSeq([k \in 1..Len(ParagraphLines) |->
                                 IF k \in chosen THEN ParagraphLines[k] ELSE "-"],
                             LAMBDA line : line # "-")) :
        chosen \in {c \in SUBSET (1..Len(ParagraphLines)) : Cardinality(c) <= MaxParagraphs}}

InitStructure ==
    /\ OthersIdle
    /\ fn_pc = "call"
    /\ fn_in \in StructuredDocuments
    /\ fn_out = None /\ fn_again = None

\* structured_content = self._extract_structured_content(doc)
ExtractStructuredContent ==
    /\ fn_pc = "call"
    /\ fn_out' = _extract_structured_content(fn_in)
    /\ fn_pc' = "extracted"
    /\ UNCHANGED <<fn_in, fn_again>>
    /\ OthersUnchanged

NextStructure == ExtractStructuredContent

SpecStructure == InitStructure /\ [][NextStructure]_vars

\* C24: a paragraph that is not blank is recorded as a signature block
\* exactly when its text holds 'signature', 'signed' or 'date'
C24_SignatureKeywords ==
    fn_pc = "extracted" =>
        \A i \in 1..Len(fn_in.paragraphs) :
            Strip(ParText(fn_in.paragraphs[i])) # "" =>
                ((\E k \in 1..Len(fn_out.signatures) : fn_out.signatures[k].index = i)
                 <=> \E keyword \in {"signature", "signed", "date"} :
                        Contains(Lower(ParText(fn_in.paragraphs[i])), keyword))

\* ------------------------------------------------------------------------
\* _find_best_paragraph called on its own
\* ------------------------------------------------------------------------

MatchedLines ==
    << "1.1 Disputes go to Dubai Courts", "ADGM Courts have jurisdiction",
       "Signed on the date", "Meeting notes" >>

\* the longest paragraph list
MaxMatched == 2

MatchedParagraphs == SeqsUpTo(Range(MatchedLines), MaxMatched)

\* issues with a section that some line holds, with a section no line
\* holds, and without a section; with keywords and without
MatchedIssues ==
    { AnnotatedIssues[1],
      DocumentIssue("Current Document", <<>>, "Missing ADGM jurisdiction clause", HIGH,
                    <<"">>, <<"">>),
      AnnotatedIssues[3],
      DocumentIssue("Current Document", <<"">>, "Signature and date are missing", MEDIUM,
                    <<"">>, <<"">>),
      DocumentIssue("Current Document", <<"Governing law">>, "No court is named", LOW,
                    <<"">>, <<"">>),
      SharedParagraphIssues[2],
      DocumentIssue("Current Document", <<>>, "The forum is left open", LOW, <<"">>, <<"">>) }

InitBestParagraph ==
    /\ OthersIdle
    /\ fn_pc = "call"
    /\ fn_in \in [issue : MatchedIssues, paragraphs : MatchedParagraphs]
    /\ fn_out = None /\ fn_again = None

\* paragraph_index = self._find_best_paragraph(issue, paragraphs)
FindBestParagraph ==
    /\ fn_pc = "call"
    /\ fn_out' = _find_best_paragraph(fn_in.issue, fn_in.paragraphs)
    /\ fn_pc' = "found"
    /\ UNCHANGED <<fn_in, fn_again>>
    /\ OthersUnchanged

NextBestParagraph == FindBestParagraph

SpecBestParagraph == InitBestParagraph /\ [][NextBestParagraph]_vars

\* the paragraphs holding a word of the section name
SectionParagraphs(issue, paragraphs) ==
    IF Truthy(issue.section)
    THEN {i \in 1..Len(paragraphs) :
            \E word \in Range(Split(Lower(issue.section[1]))) :
                Contains(Lower(paragraphs[i]), word)}
    ELSE {}

\* the number of the issue's keywords a paragraph holds
KeywordHitCount(issue, paragraph) ==
    Cardinality({keyword \in _extract_keywords_from_issue(issue) :
                    Contains(Lower(paragraph), keyword)})

\* C26: the result is no position (0) or an index of the paragraph list:
\* the lowest paragraph holding a word of the section name when there is
\* one; otherwise the lowest paragraph with the highest keyword-hit count,
\* and no position when every paragraph scores 0
C26_BestParagraphChosen ==
    fn_pc = "found" =>
        LET issue == fn_in.issue
            paragraphs == fn_in.paragraphs
            named == SectionParagraphs(issue, paragraphs)
            hits == [i \in 1..Len(paragraphs) |-> KeywordHitCount(issue, paragraphs[i])]
            top == {i \in 1..Len(paragraphs) : \A j \in 1..Len(paragraphs) : hits[j] <= hits[i]}
        IN /\ fn_out \in 0..Len(paragraphs)
           /\ named # {} => fn_out = SetMin(named)
           /\ (named = {} /\ \A i \in 1..Len(paragraphs) : hits[i] = 0) => fn_out = 0
           /\ (named = {} /\ \E i \in 1..Len(paragraphs) : hits[i] > 0) => fn_out = SetMin(top)

\* two paragraphs hold as many keywords as each other and no word of the
\* section name, and the first of them was returned
C26_Witness ==
    /\ fn_pc = "found"
    /\ Len(fn_in.paragraphs) = MaxMatched
    /\ SectionParagraphs(fn_in.issue, fn_in.paragraphs) = {}
    /\ KeywordHitCount(fn_in.issue, fn_in.paragraphs[1]) > 0
    /\ \A i \in 1..Len(fn_in.paragraphs) :
          KeywordHitCount(fn_in.issue, fn_in.paragraphs[i])
              = KeywordHitCount(fn_in.issue, fn_in.paragraphs[1])
    /\ fn_out = 1

\* ------------------------------------------------------------------------
\* _create_summary_content called on its own
\* ------------------------------------------------------------------------

SummarisedPool ==
    << DocumentIssue("a.docx", <<>>, "No jurisdiction clause", HIGH, <<"">>, <<"">>),
       DocumentIssue("a.docx", <<>>, "Dubai courts named", CRITICAL, <<"">>, <<"">>),
       DocumentIssue("a.docx", <<>>, "No signature section", MEDIUM, <<"">>, <<"">>),
       DocumentIssue("a.docx", <<>>, "Vague wording", LOW, <<"">>, <<"">>),
       DocumentIssue("a.docx", <<>>, "No company name clause", HIGH, <<"">>, <<"">>),
       DocumentIssue("a.docx", <<>>, "Date left blank", LOW, <<"">>, <<"">>),
       DocumentIssue("a.docx", <<>>, "No share capital clause", HIGH, <<"">>, <<"">>),
       DocumentIssue("a.docx", <<>>, "Federal courts named", CRITICAL, <<"">>, <<"">>) >>

\* the longest issue list
MaxSummarised == 7

\* n issues of the pool from its k-th on, as they are or all of one severity
PoolSlice(k, n, severity) ==
    <<>> \o [i \in 1..n |->
               LET issue == SummarisedPool[((k + i - 2) % Len(SummarisedPool)) + 1]
               IN IF severity = "" THEN issue ELSE [issue EXCEPT !.severity = severity]]

SummarisedLists ==
    {PoolSlice(k, n, severity) :
        k \in 1..Len(SummarisedPool), n \in 0..MaxSummarised, severity \in {"", CRITICAL, LOW}}

InitSummary ==
    /\ OthersIdle
    /\ fn_pc = "call"
    /\ fn_in \in SummarisedLists
    /\ fn_out = None /\ fn_again = None

\* summary_content = self._create_summary_content(issues)
CreateSummaryContent ==
    /\ fn_pc = "call"
    /\ fn_out' = _create_summary_content(fn_in)
    /\ fn_pc' = "summarised"
    /\ UNCHANGED <<fn_in, fn_again>>
    /\ OthersUnchanged

NextSummary == CreateSummaryContent

SpecSummary == InitSummary /\ [][NextSummary]_vars

HasPrefix(s, prefix) == StartsAt(s, prefix, 1)

\* how many issues of the list have the severity
SeverityCount(issues, severity) ==
    Cardinality({i \in 1..Len(issues) : issues[i].severity = severity})

\* the severities in the order of the breakdown
SeverityOrder == <<CRITICAL, HIGH, MEDIUM, LOW>>

\* C27: for n > 0 issues the first line gives the total n; the lines
\* between it and "Key Issues" are one count line for each severity that has
\* issues, in the order Critical, High, Medium, Low, their counts adding up
\* to n; the lines after "Key Issues" are the first min(n, 5) descriptions
\* in issue order; there is a "more" line exactly when n > 5, and it states
\* n - 5.  For no issues the result is the one affirmative line.
C27_SummaryContent ==
    fn_pc = "summarised" =>
        LET n == Len(fn_in)
            keyAt == CHOOSE k \in 1..Len(fn_out) : fn_out[k] = "(memo) Key Issues:"
            blankAt == CHOOSE k \in (keyAt + 1)..Len(fn_out) :
                          fn_out[k] = "" /\ \A j \in (keyAt + 1)..(k - 1) : fn_out[j] # ""
            counted == SubSeq(fn_out, 3, keyAt - 2)
            listed == SelectSeq(SeverityOrder, LAMBDA severity : SeverityCount(fn_in, severity) > 0)
            described == SelectSeq(SubSeq(fn_out, keyAt + 1, blankAt - 1),
                                   LAMBDA line : ~HasPrefix(line, "... and "))
            more == SelectSeq(fn_out, LAMBDA line : HasPrefix(line, "... and "))
        IN IF n = 0
           THEN Len(fn_out) = 1 /\ HasPrefix(fn_out[1], "(check) No compliance issues found.")
           ELSE /\ fn_out[1] = "(chart) Total Issues Found: " \o ToString(n)
                /\ fn_out[2] = "" /\ fn_out[keyAt - 1] = ""
                /\ counted = [k \in 1..Len(listed) |->
                                 severity_emoji(listed[k]) \o " " \o listed[k] \o ": "
                                 \o ToString(SeverityCount(fn_in, listed[k])) \o " issue(s)"]
                /\ SeverityCount(fn_in, CRITICAL) + SeverityCount(fn_in, HIGH)
                     + SeverityCount(fn_in, MEDIUM) + SeverityCount(fn_in, LOW) = n
                /\ described = [i \in 1..Min2(n, SummaryLimit) |->
                                   ToString(i) \o ". " \o fn_in[i].issue]
                /\ Len(more) = (IF n > SummaryLimit THEN 1 ELSE 0)
                /\ n > SummaryLimit =>
                      more[1] = "... and " \o ToString(n - SummaryLimit) \o " more issue(s)"

\* seven issues of three severities were summarised: three count lines,
\* five descriptions and the line for the two that are left
C27_Witness ==
    /\ fn_pc = "summarised"
    /\ Len(fn_in) = MaxSummarised
    /\ SeverityCount(fn_in, MEDIUM) = 0
    /\ SeverityCount(fn_in, CRITICAL) > 0 /\ SeverityCount(fn_in, HIGH) > 0
    /\ SeverityCount(fn_in, LOW) > 0
    /\ \E k \in 1..Len(fn_out) : fn_out[k] = "... and 2 more issue(s)"
    /\ \E k \in 1..Len(fn_out) : fn_out[k] = "5. " \o fn_in[5].issue
    /\ \A k \in 1..Len(fn_out) : ~HasPrefix(fn_out[k], "6. ")

\* ------------------------------------------------------------------------
\* DocumentParser.add_comment_to_document called on its own
\* ------------------------------------------------------------------------

\* the runs of the paragraph that hold highlight_text, highlighted
RunsHolding(runs, highlight_text) ==
    <<>> \o [r \in 1..Len(runs) |->
               IF Contains(runs[r].text, highlight_text[1])
               THEN [runs[r] EXCEPT !.highlight = TRUE]
               ELSE runs[r]]

\* `if highlight_text and highlight_text in paragraph.text`
HighlightHolding(paragraph, highlight_text) ==
    IF Truthy(highlight_text) /\ Contains(ParText(paragraph), highlight_text[1])
    THEN [paragraph EXCEPT !.runs = RunsHolding(paragraph.runs, highlight_text)]
    ELSE paragraph

\* add_comment_to_document.  The comment paragraph comes from
\* paragraph.insert_paragraph_after(): with a Paragraph class that lacks the
\* method (can_insert_after FALSE) the call raises AttributeError, the
\* handler logs it and the document is returned as it was.
add_comment_to_document(doc, paragraph_index, comment_text, highlight_text, can_insert_after) ==
    IF paragraph_index <= Len(doc.paragraphs) /\ can_insert_after
    THEN [doc EXCEPT !.paragraphs =
            InsertAfter([doc.paragraphs EXCEPT ![paragraph_index] =
                            HighlightHolding(doc.paragraphs[paragraph_index], highlight_text)],
                        paragraph_index,
                        [runs |-> <<Run("[ADGM COMMENT: " \o comment_text \o "]", FALSE)>>,
                         kind |-> "comment", orig |-> 0, target |-> paragraph_index])]
    ELSE doc

\* the highest paragraph index passed (some documents are shorter)
MaxCommented == 5

CommentedDocuments ==
    {PlainDocument(<<"This is a test paragraph for commenting.">>)}
    \cup {Files[k].doc : k \in 2..Len(Files)}

InitAddComment ==
    /\ EngineIdle /\ AnnotatorIdle /\ DedupIdle
    /\ has_insert_after \in BOOLEAN
    /\ fn_pc = "call"
    /\ fn_in \in [doc : CommentedDocuments, paragraph_index : 1..MaxCommented,
                  comment_text : {"This is a test comment"},
                  highlight_text : {<<>>, <<"test">>, <<"Dubai">>}]
    /\ fn_out = None /\ fn_again = None

\* updated_doc = self.parser.add_comment_to_document(doc, 0, "...", "test")
AddCommentToDocument ==
    /\ fn_pc = "call"
    /\ fn_out' = add_comment_to_document(fn_in.doc, fn_in.paragraph_index, fn_in.comment_text,
                                         fn_in.highlight_text, has_insert_after)
    /\ fn_pc' = "commented"
    /\ UNCHANGED <<fn_in, fn_again>>
    /\ OthersUnchanged

NextAddComment == AddCommentToDocument

SpecAddComment == InitAddComment /\ [][NextAddComment]_vars

\* C28: with a paragraph index inside the document, the returned document
\* has a comment paragraph directly after that paragraph and so more
\* paragraphs than before
C28_CommentParagraphAdded ==
    (fn_pc = "commented" /\ fn_in.paragraph_index <= Len(fn_in.doc.paragraphs)) =>
        /\ Len(fn_out.paragraphs) > Len(fn_in.doc.paragraphs)
        /\ fn_out.paragraphs[fn_in.paragraph_index + 1].kind = "comment"
        /\ fn_out.paragraphs[fn_in.paragraph_index].kind = "orig"

====
